---- MODULE Spec2Model ----
(***************************************************************************)
(* VFPU register addressing, transfer, overlap detection, size helpers and *)
(* arithmetic kernels of Core/MIPS/MIPSVFPUUtils.cpp.                      *)
(*                                                                         *)
(* The register file is the array currentMIPS->v of 128 floats; float      *)
(* values are modelled as integer tokens, since the transfer functions     *)
(* only move them; the arithmetic kernels work on the 32-bit words of      *)
(* their operands.  C arrays are functions over 0..n-1.  Every function of *)
(* the source is an operator computed as the code computes it, and every   *)
(* call is one action that records its arguments and its results.  Where   *)
(* two callers run at once (SpecTwoCpu, SpecNotation) a call is a sequence *)
(* of steps, one per load or store on the state they share.                *)
(***************************************************************************)
EXTENDS Integers, FiniteSets, Sequences, TLC

VARIABLES
    v,      \* currentMIPS->v: the 128 floats, in memory order
    mask,   \* what currentMIPS->VfpuWriteMask() returns (4 bits)
    stack,  \* bytes found in the storage that uninitialised local arrays get
    pc,     \* "idle" before a call, then "written" / "read" / "done"
    fn,     \* name of the function called last
    arg,    \* its arguments
    src,    \* the operand buffer passed to a Write* call
    pre,    \* the register file as it was before the call
    out,    \* what the call produced: the array it filled, or its result
    ret,    \* integer return value (negate flag of a platform cosine)
    kind,   \* MatrixOverlapType returned, platform function called, or "assert"
    currentMIPS, \* the ambient pointer to the CPU instance in use
    cpu,    \* the CPU instances: register file v and write mask of each
    th,     \* the threads: where each one is in its call, and its locals
    hej,    \* the static buffers hej[4] of each notation function
    yo      \* the static index yo of each notation function

vars == <<v, mask, stack, pc, fn, arg, src, pre, out, ret, kind,
          currentMIPS, cpu, th, hej, yo>>

\* The instances, the threads and the notation statics.
ambient == <<currentMIPS, cpu, th, hej, yo>>

(***************************************************************************)
(* Bounds of the model.                                                    *)
(***************************************************************************)
\* The overlap and round-trip specifications draw their register codes from
\* banks 0..MaxBank; addressing and single transfers use all 128 codes.
MaxBank == 1

(***************************************************************************)
(* C integer operators on non-negative ints.                               *)
(***************************************************************************)
RECURSIVE BitAnd(_, _)
BitAnd(a, b) ==
    IF a = 0 \/ b = 0 THEN 0
    ELSE (a % 2) * (b % 2) + 2 * BitAnd(a \div 2, b \div 2)

RECURSIVE Pow2(_)
Pow2(k) == IF k = 0 THEN 1 ELSE 2 * Pow2(k - 1)

Shr(a, k) == a \div Pow2(k)

(***************************************************************************)
(* Sizes.  The enumerators are kept by name.                               *)
(***************************************************************************)
VectorSizes == {"V_Single", "V_Pair", "V_Triple", "V_Quad"}
MatrixSizes == {"M_1x1", "M_2x2", "M_3x3", "M_4x4"}

GetNumVectorElements(sz) ==
    CASE sz = "V_Single" -> 1
      [] sz = "V_Pair"   -> 2
      [] sz = "V_Triple" -> 3
      [] sz = "V_Quad"   -> 4
      [] OTHER           -> 0

GetMatrixSideSafe(sz) ==
    CASE sz = "M_1x1" -> 1
      [] sz = "M_2x2" -> 2
      [] sz = "M_3x3" -> 3
      [] sz = "M_4x4" -> 4
      [] OTHER        -> 0

\* A non-Safe helper: _assert_msg_(res != bad, ...); return res.  fatal says
\* that the assertion fails, value is res.
Checked(res, bad) == [fatal |-> res = bad, value |-> res]

GetMatrixSide(sz) == Checked(GetMatrixSideSafe(sz), 0)

GetMatrixSizeSafe(sz) ==
    CASE sz = "V_Single" -> "M_1x1"
      [] sz = "V_Pair"   -> "M_2x2"
      [] sz = "V_Triple" -> "M_3x3"
      [] sz = "V_Quad"   -> "M_4x4"
      [] OTHER           -> "M_Invalid"

(***************************************************************************)
(* Addressing.                                                             *)
(***************************************************************************)
\* The switch of GetVectorRegs / ReadVector / WriteVector: row field by size.
VecRow(N, reg) ==
    CASE N = "V_Single" -> BitAnd(Shr(reg, 5), 3)
      [] N = "V_Pair"   -> BitAnd(Shr(reg, 5), 2)
      [] N = "V_Triple" -> BitAnd(Shr(reg, 6), 1)
      [] N = "V_Quad"   -> BitAnd(Shr(reg, 5), 2)

VecTranspose(N, reg) ==
    IF N = "V_Single" THEN 0 ELSE BitAnd(Shr(reg, 5), 1)

\* Mutant of VecIndex: the transposed branch forgets the &3 wraparound.
VecIndexNoWrap(mtx, col, row, transpose, i) ==
    IF transpose # 0
    THEN mtx * 4 + (row + i) + col * 32
    ELSE mtx * 4 + col + BitAnd(row + i, 3) * 32

\* Mutant of VecIndex: the two branches of the transpose test are swapped.
VecIndexSwapped(mtx, col, row, transpose, i) ==
    IF transpose # 0
    THEN mtx * 4 + col + BitAnd(row + i, 3) * 32
    ELSE mtx * 4 + BitAnd(row + i, 3) + col * 32

\* The body of the loop of GetVectorRegs: the index of element i.
VecIndex(mtx, col, row, transpose, i) ==
    IF transpose # 0
    THEN mtx * 4 + BitAnd(row + i, 3) + col * 32
    ELSE mtx * 4 + col + BitAnd(row + i, 3) * 32

\* GetVectorRegs(regs, N, vectorReg): regs0 is the caller's array on entry;
\* the elements from length on are left as they were.
GetVectorRegs(regs0, N, vectorReg) ==
    LET mtx       == BitAnd(Shr(vectorReg, 2), 7)
        col       == BitAnd(vectorReg, 3)
        row       == VecRow(N, vectorReg)
        transpose == VecTranspose(N, vectorReg)
        length    == GetNumVectorElements(N)
    IN  [i \in 0..3 |->
            IF i < length THEN VecIndex(mtx, col, row, transpose, i)
            ELSE regs0[i]]

MtxRow(N, reg) ==
    CASE N = "M_1x1" -> BitAnd(Shr(reg, 5), 3)
      [] N = "M_2x2" -> BitAnd(Shr(reg, 5), 2)
      [] N = "M_3x3" -> BitAnd(Shr(reg, 6), 1)
      [] N = "M_4x4" -> BitAnd(Shr(reg, 5), 2)

MtxTranspose(N, reg) ==
    IF N = "M_1x1" THEN 0 ELSE BitAnd(Shr(reg, 5), 1)

\* Mutant of MtxIndex: the column offset is not wrapped with &3.
MtxIndexNoWrap(mtx, col, row, transpose, i, j) ==
    IF transpose # 0
    THEN mtx * 4 + BitAnd(row + i, 3) + (col + j) * 32
    ELSE mtx * 4 + (col + j) + BitAnd(row + i, 3) * 32

\* Mutant of MtxIndex: the transpose bit is ignored.
MtxIndexNoTranspose(mtx, col, row, transpose, i, j) ==
    mtx * 4 + BitAnd(col + j, 3) + BitAnd(row + i, 3) * 32

\* The body of the loops of GetMatrixRegs: the index stored at regs[j*4+i].
MtxIndex(mtx, col, row, transpose, i, j) ==
    IF transpose # 0
    THEN mtx * 4 + BitAnd(row + i, 3) + BitAnd(col + j, 3) * 32
    ELSE mtx * 4 + BitAnd(col + j, 3) + BitAnd(row + i, 3) * 32

\* GetMatrixRegs(regs, N, matrixReg): regs[j*4+i] for i, j < side is written.
GetMatrixRegs(regs0, N, matrixReg) ==
    LET mtx       == BitAnd(Shr(matrixReg, 2), 7)
        col       == BitAnd(matrixReg, 3)
        row       == MtxRow(N, matrixReg)
        transpose == MtxTranspose(N, matrixReg)
        side      == GetMatrixSideSafe(N)
    IN  [k \in 0..15 |->
            LET i == k % 4
                j == k \div 4
            IN  IF i < side /\ j < side
                THEN MtxIndex(mtx, col, row, transpose, i, j)
                ELSE regs0[k]]

(***************************************************************************)
(* Inputs and the common initial state.                                    *)
(***************************************************************************)
\* RegisterCode: every 7-bit code.
Codes == 0..127

\* The codes of banks 0..MaxBank.
BankCodes == {c \in Codes : BitAnd(Shr(c, 2), 7) <= MaxBank}

\* A caller's array before the callee fills it: -1 in every element.
Fresh(n) == [k \in 0..(n - 1) |-> -1]

NoArg == [size |-> "-", reg |-> 0, size2 |-> "-", reg2 |-> 0]

\* Register file in which memory slot p holds the token p.
TokenFile == [p \in 0..127 |-> p]

\* Register file with repeated values.
RepeatFile == [p \in 0..127 |-> p % 3]

Idle ==
    /\ pc = "idle"
    /\ fn = "-"
    /\ arg = NoArg
    /\ src = Fresh(16)
    /\ pre = v
    /\ out = Fresh(16)
    /\ ret = 0
    /\ kind = "-"
    /\ currentMIPS = 0
    /\ cpu = <<>>
    /\ th = <<>>
    /\ hej = <<>>
    /\ yo = <<>>

(***************************************************************************)
(* Specification SpecAddr: one call of a decode function.  The functions    *)
(* are pure, so a call's result does not depend on the calls before it and *)
(* each behaviour makes a single call from the idle state.                 *)
(***************************************************************************)
InitAddr ==
    /\ v = TokenFile
    /\ mask = 0
    /\ stack = 0
    /\ Idle

DoGetVectorRegs ==
    /\ pc = "idle"
    /\ \E N \in VectorSizes, reg \in Codes :
           /\ pc' = "done"
           /\ fn' = "GetVectorRegs"
           /\ arg' = [NoArg EXCEPT !.size = N, !.reg = reg]
           /\ out' = GetVectorRegs(Fresh(4), N, reg)
           /\ ret' = 0
           /\ kind' = "-"
           /\ UNCHANGED <<v, mask, stack, src, pre, ambient>>

DoGetMatrixRegs ==
    /\ pc = "idle"
    /\ \E N \in MatrixSizes, reg \in Codes :
           /\ pc' = "done"
           /\ fn' = "GetMatrixRegs"
           /\ arg' = [NoArg EXCEPT !.size = N, !.reg = reg]
           /\ out' = GetMatrixRegs(Fresh(16), N, reg)
           /\ ret' = 0
           /\ kind' = "-"
           /\ UNCHANGED <<v, mask, stack, src, pre, ambient>>

NextAddr == DoGetVectorRegs \/ DoGetMatrixRegs

SpecAddr == InitAddr /\ [][NextAddr]_vars

(***************************************************************************)
(* Claims about addressing (checked under SpecAddr).                       *)
(***************************************************************************)
\* C1: GetVectorRegs writes exactly elementCount(size) elements (1, 2, 3, 4
\* for Single, Pair, Triple, Quad), they are pairwise distinct, and each is
\* a lane index in [0,128).
C1_VectorRegsDistinctInRange ==
    fn = "GetVectorRegs" =>
        LET n == CASE arg.size = "V_Single" -> 1 [] arg.size = "V_Pair" -> 2
                   [] arg.size = "V_Triple" -> 3 [] arg.size = "V_Quad" -> 4
        IN  /\ \A i \in 0..3 : (i < n) <=> (out[i] # -1)
            /\ \A i \in 0..(n - 1) : out[i] \in 0..127
            /\ \A i, k \in 0..(n - 1) : i # k => out[i] # out[k]

\* A Quad decode of a transposed code whose row field is 2: the lanes wrap.
C1_Witness ==
    /\ fn = "GetVectorRegs"
    /\ arg.size = "V_Quad"
    /\ arg.reg = 127
    /\ out = [i \in 0..3 |-> <<126, 127, 124, 125>>[i + 1]]

\* C2: GetMatrixRegs fills the cells out[j*4+i], i, j < side, with pairwise
\* distinct lane indices in [0,128), also when the tile wraps around.
C2_MatrixRegsDistinctInRange ==
    fn = "GetMatrixRegs" =>
        LET side == CASE arg.size = "M_1x1" -> 1 [] arg.size = "M_2x2" -> 2
                      [] arg.size = "M_3x3" -> 3 [] arg.size = "M_4x4" -> 4
            cells == {j * 4 + i : i \in 0..(side - 1), j \in 0..(side - 1)}
        IN  /\ \A k \in 0..15 : (k \in cells) <=> (out[k] # -1)
            /\ \A k \in cells : out[k] \in 0..127
            /\ \A k, l \in cells : k # l => out[k] # out[l]

\* A 3x3 tile at column 3, row 1: columns 3, 0, 1 and rows 1, 2, 3.
C2_Witness ==
    /\ fn = "GetMatrixRegs"
    /\ arg.size = "M_3x3"
    /\ arg.reg = 67
    /\ out[0] = 35
    /\ out[4] = 32
    /\ out[10] = 97

\* The spec's bit layout, written with division and remainder.
SpecBank(reg) == (reg \div 4) % 8
SpecCol(reg) == reg % 4
SpecTranspose(size, reg) ==
    IF size \in {"V_Single", "M_1x1"} THEN 0 ELSE (reg \div 32) % 2
SpecRow(size, reg) ==
    CASE size \in {"V_Single", "M_1x1"} -> (reg \div 32) % 4
      [] size \in {"V_Triple", "M_3x3"} -> (reg \div 64) % 2
      [] OTHER                          -> 2 * ((reg \div 64) % 2)

\* C3: code 0 at Quad decodes to 0,32,64,96 and code 0x20 to 0,1,2,3; element
\* i of any decoded vector is bank*4 + (transpose ? ((row+i)&3) + col*32
\* : col + ((row+i)&3)*32).
C3_VectorIndexFormula ==
    fn = "GetVectorRegs" =>
        /\ (arg.size = "V_Quad" /\ arg.reg = 0) =>
               <<out[0], out[1], out[2], out[3]>> = <<0, 32, 64, 96>>
        /\ (arg.size = "V_Quad" /\ arg.reg = 32) =>
               <<out[0], out[1], out[2], out[3]>> = <<0, 1, 2, 3>>
        /\ \A i \in 0..3 : out[i] # -1 =>
               out[i] = SpecBank(arg.reg) * 4 +
                   (IF SpecTranspose(arg.size, arg.reg) = 1
                    THEN ((SpecRow(arg.size, arg.reg) + i) % 4)
                             + SpecCol(arg.reg) * 32
                    ELSE SpecCol(arg.reg)
                             + ((SpecRow(arg.size, arg.reg) + i) % 4) * 32)

C3_Witness ==
    /\ fn = "GetVectorRegs"
    /\ arg.size = "V_Quad"
    /\ arg.reg = 32
    /\ out[3] = 3

\* The code with its transpose bit (bit 5) flipped.
FlipTranspose(reg) ==
    IF BitAnd(Shr(reg, 5), 1) = 1 THEN reg - 32 ELSE reg + 32

\* The grid decoded for the flipped code is the transpose of the grid in out.
FlippedIsTranspose ==
    LET side    == GetMatrixSideSafe(arg.size)
        flipped == GetMatrixRegs(Fresh(16), arg.size, FlipTranspose(arg.reg))
    IN  \A i, j \in 0..(side - 1) : flipped[j * 4 + i] = out[i * 4 + j]

\* C4 as stated: for every code and size, flipping bit 5 maps the decoded
\* grid to its matrix transpose.
C4_Original ==
    fn = "GetMatrixRegs" => FlippedIsTranspose

\* C4 amended: for 2x2, 3x3 and 4x4, flipping bit 5 maps the decoded grid to
\* its matrix transpose exactly when the code's column field equals its row
\* field (the tile's origin lies on the bank's diagonal); for 1x1, where
\* bit 5 is part of the row field, it never does.
C4_TransposeOnDiagonal ==
    fn = "GetMatrixRegs" =>
        (FlippedIsTranspose <=>
            (/\ arg.size # "M_1x1"
             /\ SpecCol(arg.reg) = SpecRow(arg.size, arg.reg)))

\* A 3x3 tile at column 1, row 1 and its transposed addressing.
C4_Witness ==
    /\ fn = "GetMatrixRegs"
    /\ arg.size = "M_3x3"
    /\ arg.reg = 65
    /\ FlippedIsTranspose
    /\ out[4] # out[1]

(***************************************************************************)
(* Overlap detection.                                                      *)
(***************************************************************************)
\* u8 regs[n] declared without an initialiser: element k holds whatever byte
\* its own storage held, bytes[k]; no two elements need hold the same byte.
Uninit(n, bytes) == [k \in 0..(n - 1) |-> bytes[k]]

\* The early-return test of GetVectorOverlap: same matrix (bank)?
SameMatrix(vec1, vec2) ==
    BitAnd(Shr(vec1, 2), 7) = BitAnd(Shr(vec2, 2), 7)

\* Mutant of CountEqual: the outer loop starts at 1.
CountEqualFromOne(regs1, n1, regs2, n2) ==
    Cardinality({p \in (1..(n1 - 1)) \X (0..(n2 - 1)) :
                    regs1[p[1]] = regs2[p[2]]})

\* The counting loops of GetVectorOverlap.
CountEqual(regs1, n1, regs2, n2) ==
    Cardinality({p \in (0..(n1 - 1)) \X (0..(n2 - 1)) :
                    regs1[p[1]] = regs2[p[2]]})

\* GetVectorOverlap(vec1, size1, vec2, size2); junk[1] and junk[2] are the
\* bytes in the storage of regs1 and of regs2.  Both decodes are passed size1.
GetVectorOverlap(junk, vec1, size1, vec2, size2) ==
    IF ~SameMatrix(vec1, vec2) THEN 0
    ELSE LET n1    == GetNumVectorElements(size1)
             n2    == GetNumVectorElements(size2)
             regs1 == GetVectorRegs(Uninit(4, junk[1]), size1, vec1)
             regs2 == GetVectorRegs(Uninit(4, junk[2]), size1, vec2)
         IN  CountEqual(regs1, n1, regs2, n2)

\* Mutant of AnyShared: only cells at the same grid position are compared.
AnySharedSamePosition(m1, m2, n) ==
    \E x, y \in 0..(n - 1) : m2[y * 4 + x] = m1[y * 4 + x]

\* The exhaustive search of GetMatrixOverlap.
AnyShared(m1, m2, n) ==
    \E x, y, a, b \in 0..(n - 1) : m2[a * 4 + b] = m1[y * 4 + x]

\* GetMatrixOverlap(mtx1, mtx2, msize); junk[1] and junk[2] are the bytes in
\* the storage of m1 and of m2.
GetMatrixOverlap(junk, mtx1, mtx2, msize) ==
    LET n == GetMatrixSide(msize).value
    IN  IF mtx1 = mtx2 THEN "OVERLAP_EQUAL"
        ELSE LET m1 == GetMatrixRegs(Uninit(16, junk[1]), msize, mtx1)
                 m2 == GetMatrixRegs(Uninit(16, junk[2]), msize, mtx2)
             IN  IF AnyShared(m1, m2, n) THEN "OVERLAP_PARTIAL"
                 ELSE "OVERLAP_NONE"

(***************************************************************************)
(* Specification SpecOverlap: one call of an overlap function.  The local  *)
(* arrays of a call get storage that earlier calls have used; each byte of *)
(* it is arbitrary and independent of its neighbours.  stack records the   *)
(* bytes the call found, <<bytes of the first array, bytes of the second>>.*)
(* The loops only compare bytes for equality with elements of regs1, so a  *)
(* byte is drawn from the lanes of the first operand and 255, which stands *)
(* for every byte that is no element of regs1 (lanes are below 128).       *)
(***************************************************************************)
\* The bytes that can tell one result of a call on vec1 at size1 from another.
JunkBytes(vec1, size1) ==
    {GetVectorRegs(Fresh(4), size1, vec1)[k] :
        k \in 0..(GetNumVectorElements(size1) - 1)} \cup {255}

\* Two patterns of bytes for storage that the decode overwrites or that the
\* loops never reach.
StalePatterns(n) ==
    {[k \in 0..(n - 1) |-> 255], [k \in 0..(n - 1) |-> (36 + 7 * k) % 256]}

\* What the storage of regs1 and regs2 can hold at a call: the elements of
\* regs2 past the size1 elements that the decode writes take every
\* combination of bytes; the loops stop short of the unwritten elements of
\* regs1, for which one pattern is drawn.
VectorResidues(vec1, size1) ==
    LET n1 == GetNumVectorElements(size1)
    IN  {<<r1, r2>> : r1 \in {[k \in 0..3 |-> (36 + 7 * k) % 256]},
                      r2 \in {r \in [0..3 -> JunkBytes(vec1, size1)] :
                                 \A k \in 0..(n1 - 1) : r[k] = 255}}

\* What the storage of the two 16-element arrays can hold at a call.
MatrixResidues ==
    {r \in StalePatterns(16) \X StalePatterns(16) : r[1] # r[2]}

InitOverlap ==
    /\ v = TokenFile
    /\ mask = 0
    /\ stack = <<>>
    /\ Idle

DoGetVectorOverlap ==
    /\ pc = "idle"
    /\ \E size1 \in VectorSizes, size2 \in VectorSizes,
          vec1 \in BankCodes, vec2 \in BankCodes :
        \E junk \in VectorResidues(vec1, size1) :
           /\ pc' = "done"
           /\ fn' = "GetVectorOverlap"
           /\ arg' = [size |-> size1, reg |-> vec1, size2 |-> size2, reg2 |-> vec2]
           /\ stack' = junk
           /\ ret' = GetVectorOverlap(junk, vec1, size1, vec2, size2)
           /\ kind' = "-"
           /\ UNCHANGED <<v, mask, src, pre, out, ambient>>

DoGetMatrixOverlap ==
    /\ pc = "idle"
    /\ \E msize \in MatrixSizes, mtx1 \in BankCodes, mtx2 \in BankCodes :
        \E junk \in MatrixResidues :
           /\ pc' = "done"
           /\ fn' = "GetMatrixOverlap"
           /\ arg' = [size |-> msize, reg |-> mtx1, size2 |-> msize, reg2 |-> mtx2]
           /\ stack' = junk
           /\ kind' = GetMatrixOverlap(junk, mtx1, mtx2, msize)
           /\ ret' = 0
           /\ UNCHANGED <<v, mask, src, pre, out, ambient>>

NextOverlap == DoGetVectorOverlap \/ DoGetMatrixOverlap

SpecOverlap == InitOverlap /\ [][NextOverlap]_vars

(***************************************************************************)
(* Claims about overlap detection (checked under SpecOverlap).             *)
(***************************************************************************)
\* C8: the overlap of a vector with itself at one size is elementCount(size),
\* and the overlap of two codes with different bank fields is 0 whatever the
\* sizes.
C8_SelfOverlapAndBanks ==
    fn = "GetVectorOverlap" =>
        /\ (arg.reg = arg.reg2 /\ arg.size = arg.size2) =>
               ret = (CASE arg.size = "V_Single" -> 1 [] arg.size = "V_Pair" -> 2
                        [] arg.size = "V_Triple" -> 3 [] arg.size = "V_Quad" -> 4)
        /\ SpecBank(arg.reg) # SpecBank(arg.reg2) => ret = 0

\* A Triple in bank 1 compared with itself.
C8_Witness ==
    /\ fn = "GetVectorOverlap"
    /\ arg.reg = 101
    /\ arg.reg2 = 101
    /\ arg.size = "V_Triple"
    /\ arg.size2 = "V_Triple"
    /\ ret = 3

\* The lanes DecodeVector(code, size) yields, by position; none beyond the
\* size's element count.
SpecDecodeVector(code, size) ==
    [i \in 0..(GetNumVectorElements(size) - 1) |->
        SpecBank(code) * 4 +
            (IF SpecTranspose(size, code) = 1
             THEN ((SpecRow(size, code) + i) % 4) + SpecCol(code) * 32
             ELSE SpecCol(code) + ((SpecRow(size, code) + i) % 4) * 32)]

\* C9: for two codes of one bank GetVectorOverlap returns the number of pairs
\* (i < elementCount(size1), j < elementCount(size2)) whose lanes coincide,
\* both codes decoded with size1.
C9_CountsCoincidentLanes ==
    (fn = "GetVectorOverlap" /\ SpecBank(arg.reg) = SpecBank(arg.reg2)) =>
        LET d1 == SpecDecodeVector(arg.reg, arg.size)
            d2 == SpecDecodeVector(arg.reg2, arg.size)
            n2 == GetNumVectorElements(arg.size2)
        IN  ret = Cardinality({p \in (DOMAIN d1) \X (0..(n2 - 1)) :
                                  p[2] \in DOMAIN d2 /\ d1[p[1]] = d2[p[2]]})

\* The set of lanes of the side*side tile a matrix code addresses.
SpecTile(code, size) ==
    LET side == GetMatrixSideSafe(size)
    IN  {SpecBank(code) * 4 +
            (IF SpecTranspose(size, code) = 1
             THEN ((SpecRow(size, code) + i) % 4)
                      + ((SpecCol(code) + j) % 4) * 32
             ELSE ((SpecCol(code) + j) % 4)
                      + ((SpecRow(size, code) + i) % 4) * 32) :
         i \in 0..(side - 1), j \in 0..(side - 1)}

\* C10: GetMatrixOverlap returns EQUAL iff the codes are equal; otherwise
\* PARTIAL if the two tiles share a lane and NONE if they share none (NONE
\* whenever the banks differ); the result is the same with the codes swapped.
C10_MatrixOverlap ==
    fn = "GetMatrixOverlap" =>
        LET shared == SpecTile(arg.reg, arg.size) \cap SpecTile(arg.reg2, arg.size)
        IN  /\ (kind = "OVERLAP_EQUAL") <=> (arg.reg = arg.reg2)
            /\ arg.reg # arg.reg2 =>
                   kind = (IF shared # {} THEN "OVERLAP_PARTIAL" ELSE "OVERLAP_NONE")
            /\ SpecBank(arg.reg) # SpecBank(arg.reg2) => kind = "OVERLAP_NONE"
            /\ kind = GetMatrixOverlap(stack, arg.reg2, arg.reg, arg.size)

\* Two different 2x2 codes of one bank, one transposed, sharing one lane only.
C10_Witness ==
    /\ fn = "GetMatrixOverlap"
    /\ arg.size = "M_2x2"
    /\ arg.reg = 1
    /\ arg.reg2 = 97
    /\ kind = "OVERLAP_PARTIAL"
    /\ Cardinality(SpecTile(1, "M_2x2") \cap SpecTile(97, "M_2x2")) = 1

(***************************************************************************)
(* Transfer between the register file and operand buffers.                 *)
(***************************************************************************)
\* voffset[i]: the memory slot of lane i.  Lane m*4 + x*32 + y is kept at
\* slot m*16 + y*4 + x, so that a bank's 16 floats are contiguous.
voffset(i) ==
    ((i \div 4) % 8) * 16 + (i % 4) * 4 + (i \div 32)

\* currentMIPS->VfpuWriteMask(i): bit i of the write mask.
VfpuWriteMask(m, i) == BitAnd(Shr(m, i), 1) # 0

\* V(i), read in register file vv.
V(vv, i) == vv[voffset(i)]

\* V(i) = x: the register file after the assignment.
SetV(vv, i, x) == [vv EXCEPT ![voffset(i)] = x]

\* Mutant of ReadVecLane: the untransposed loop steps by 4 instead of 32.
ReadVecLaneStride4(mtx, col, row, transpose, i) ==
    IF transpose # 0
    THEN (mtx * 4 + col * 32) + BitAnd(row + i, 3)
    ELSE (mtx * 4 + col) + BitAnd(row + i, 3) * 4

\* The lane read into rd[i] by the two loops of ReadVector: base + offset.
ReadVecLane(mtx, col, row, transpose, i) ==
    IF transpose # 0
    THEN (mtx * 4 + col * 32) + BitAnd(row + i, 3)
    ELSE (mtx * 4 + col) + BitAnd(row + i, 3) * 32

\* ReadVector(rd, size, reg) on register file vv; rd0 is rd on entry.
ReadVector(vv, rd0, size, reg) ==
    IF size = "V_Single" THEN [rd0 EXCEPT ![0] = V(vv, reg)]
    ELSE LET row       == VecRow(size, reg)
             length    == GetNumVectorElements(size)
             transpose == BitAnd(Shr(reg, 5), 1)
             mtx       == BitAnd(Shr(reg, 2), 7)
             col       == BitAnd(reg, 3)
         IN  [i \in DOMAIN rd0 |->
                 IF i < length
                 THEN V(vv, ReadVecLane(mtx, col, row, transpose, i))
                 ELSE rd0[i]]

\* The loops of WriteVector taken when the write mask is 0, from element i on.
RECURSIVE WriteVecPlain(_, _, _, _, _, _, _, _)
WriteVecPlain(vv, rd, mtx, col, row, transpose, length, i) ==
    IF i >= length THEN vv
    ELSE WriteVecPlain(
             SetV(vv, IF transpose # 0
                      THEN (mtx * 4 + col * 32) + BitAnd(row + i, 3)
                      ELSE (mtx * 4 + col) + BitAnd(row + i, 3) * 32,
                  rd[i]),
             rd, mtx, col, row, transpose, length, i + 1)

\* Mutant of WriteVecLaneMasked: every element tests mask bit 0.
WriteVecLaneMaskedBit0(vv, m, rd, mtx, col, row, transpose, i) ==
    IF ~VfpuWriteMask(m, 0)
    THEN SetV(vv, VecIndex(mtx, col, row, transpose, i), rd[i])
    ELSE vv

\* One iteration of the loop of WriteVector taken when the mask is not 0.
WriteVecLaneMasked(vv, m, rd, mtx, col, row, transpose, i) ==
    IF ~VfpuWriteMask(m, i)
    THEN SetV(vv, VecIndex(mtx, col, row, transpose, i), rd[i])
    ELSE vv

RECURSIVE WriteVecMasked(_, _, _, _, _, _, _, _, _)
WriteVecMasked(vv, m, rd, mtx, col, row, transpose, length, i) ==
    IF i >= length THEN vv
    ELSE WriteVecMasked(
             WriteVecLaneMasked(vv, m, rd, mtx, col, row, transpose, i),
             m, rd, mtx, col, row, transpose, length, i + 1)

\* WriteVector(rd, size, reg) on register file vv with write mask m.
WriteVector(vv, m, rd, size, reg) ==
    IF size = "V_Single"
    THEN IF ~VfpuWriteMask(m, 0) THEN SetV(vv, reg, rd[0]) ELSE vv
    ELSE LET mtx       == BitAnd(Shr(reg, 2), 7)
             col       == BitAnd(reg, 3)
             transpose == BitAnd(Shr(reg, 5), 1)
             row       == VecRow(size, reg)
             length    == GetNumVectorElements(size)
         IN  IF m = 0
             THEN WriteVecPlain(vv, rd, mtx, col, row, transpose, length, 0)
             ELSE WriteVecMasked(vv, m, rd, mtx, col, row, transpose, length, 0)

\* Mutant of MtxSlot: the transposed and the plain formula are exchanged.
MtxSlotExchanged(col, row, transpose, i, j) ==
    IF transpose # 0
    THEN BitAnd(col + j, 3) * 4 + BitAnd(row + i, 3)
    ELSE BitAnd(row + i, 3) * 4 + BitAnd(col + j, 3)

\* The slot, within the bank's 16 floats, of cell (i, j) in the general loops
\* of ReadMatrix and WriteMatrix.
MtxSlot(col, row, transpose, i, j) ==
    IF transpose # 0
    THEN BitAnd(row + i, 3) * 4 + BitAnd(col + j, 3)
    ELSE BitAnd(col + j, 3) * 4 + BitAnd(row + i, 3)

\* Mutant of ReadMatrix: the fast path copies the bank as it lies in memory
\* whether the code is transposed or not.
ReadMatrixFastCopy(vv, rd0, size, reg) ==
    LET mtx       == BitAnd(Shr(reg, 2), 7)
        col       == BitAnd(reg, 3)
        row       == MtxRow(size, reg)
        side      == GetMatrixSideSafe(size)
        transpose == MtxTranspose(size, reg)
        base      == mtx * 16
    IN  [k \in DOMAIN rd0 |->
            LET i == k % 4
                j == k \div 4
            IN  IF side = 4 /\ col = 0 /\ row = 0
                THEN vv[base + k]
                ELSE IF i < side /\ j < side
                     THEN vv[base + MtxSlot(col, row, transpose, i, j)]
                     ELSE rd0[k]]

\* ReadMatrix(rd, size, reg) on register file vv; rd0 is rd on entry.
ReadMatrix(vv, rd0, size, reg) ==
    LET mtx       == BitAnd(Shr(reg, 2), 7)
        col       == BitAnd(reg, 3)
        row       == MtxRow(size, reg)
        side      == GetMatrixSideSafe(size)
        transpose == MtxTranspose(size, reg)
        base      == mtx * 16
    IN  [k \in DOMAIN rd0 |->
            LET i == k % 4
                j == k \div 4
            IN  IF side = 4 /\ col = 0 /\ row = 0
                THEN IF transpose # 0
                     THEN vv[base + i * 4 + j]
                     ELSE vv[base + k]
                ELSE IF i < side /\ j < side
                     THEN vv[base + MtxSlot(col, row, transpose, i, j)]
                     ELSE rd0[k]]

\* Mutant of MtxCellWritten: every column tests the mask bit of its row.
MtxCellWrittenAllColumns(m, side, i, j) ==
    ~VfpuWriteMask(m, i)

\* The test guarding the store in the general loops of WriteMatrix.
MtxCellWritten(m, side, i, j) ==
    j # side - 1 \/ ~VfpuWriteMask(m, i)

\* The fast paths of WriteMatrix: all 16 cells, k = j*4+i running from k on.
RECURSIVE WriteMtxFast(_, _, _, _, _)
WriteMtxFast(vv, rd, base, transpose, k) ==
    IF k >= 16 THEN vv
    ELSE LET i == k % 4
             j == k \div 4
         IN  WriteMtxFast(
                 [vv EXCEPT ![base + (IF transpose # 0 THEN i * 4 + j ELSE k)]
                                = rd[j * 4 + i]],
                 rd, base, transpose, k + 1)

\* The general loops of WriteMatrix: j outer, i inner, from step k on.
RECURSIVE WriteMtxLoop(_, _, _, _, _, _, _, _, _)
WriteMtxLoop(vv, m, rd, base, col, row, transpose, side, k) ==
    IF k >= side * side THEN vv
    ELSE LET i == k % side
             j == k \div side
         IN  WriteMtxLoop(
                 IF MtxCellWritten(m, side, i, j)
                 THEN [vv EXCEPT ![base + MtxSlot(col, row, transpose, i, j)]
                                     = rd[j * 4 + i]]
                 ELSE vv,
                 m, rd, base, col, row, transpose, side, k + 1)

\* WriteMatrix(rd, size, reg) on register file vv with write mask m.
WriteMatrix(vv, m, rd, size, reg) ==
    LET mtx       == BitAnd(Shr(reg, 2), 7)
        col       == BitAnd(reg, 3)
        row       == MtxRow(size, reg)
        side      == GetMatrixSideSafe(size)
        transpose == MtxTranspose(size, reg)
        base      == mtx * 16
    IN  IF side = 4 /\ row = 0 /\ col = 0 /\ m = 0
        THEN WriteMtxFast(vv, rd, base, transpose, 0)
        ELSE WriteMtxLoop(vv, m, rd, base, col, row, transpose, side, 0)

(***************************************************************************)
(* Calls of the transfer functions.  A Write* call is passed the operand   *)
(* buffer SrcBuf, whose 16 values differ from each other and from every    *)
(* value of the initial register files, so that each lane's content tells  *)
(* which store, if any, reached it.                                        *)
(***************************************************************************)
SrcBuf == [k \in 0..15 |-> 200 + k]

WriteVectorCall(codes, to) ==
    /\ pc = "idle"
    /\ \E size \in VectorSizes, reg \in codes :
           /\ pc' = to
           /\ fn' = "WriteVector"
           /\ arg' = [NoArg EXCEPT !.size = size, !.reg = reg]
           /\ src' = SrcBuf
           /\ pre' = v
           /\ v' = WriteVector(v, mask, SrcBuf, size, reg)
           /\ UNCHANGED <<mask, stack, out, ret, kind, ambient>>

WriteMatrixCall(codes, to) ==
    /\ pc = "idle"
    /\ \E size \in MatrixSizes, reg \in codes :
           /\ pc' = to
           /\ fn' = "WriteMatrix"
           /\ arg' = [NoArg EXCEPT !.size = size, !.reg = reg]
           /\ src' = SrcBuf
           /\ pre' = v
           /\ v' = WriteMatrix(v, mask, SrcBuf, size, reg)
           /\ UNCHANGED <<mask, stack, out, ret, kind, ambient>>

\* A read called first records its arguments in size, reg; a read that
\* follows a write records them in size2, reg2 beside the write's.
ReadVectorCall(codes, from, to) ==
    /\ pc = from
    /\ \E size \in VectorSizes, reg \in codes :
           /\ pc' = to
           /\ fn' = "ReadVector"
           /\ arg' = IF from = "idle"
                     THEN [NoArg EXCEPT !.size = size, !.reg = reg]
                     ELSE [arg EXCEPT !.size2 = size, !.reg2 = reg]
           /\ out' = ReadVector(v, Fresh(4), size, reg)
           /\ UNCHANGED <<v, mask, stack, src, pre, ret, kind, ambient>>

ReadMatrixCall(codes, from, to) ==
    /\ pc = from
    /\ \E size \in MatrixSizes, reg \in codes :
           /\ pc' = to
           /\ fn' = "ReadMatrix"
           /\ arg' = IF from = "idle"
                     THEN [NoArg EXCEPT !.size = size, !.reg = reg]
                     ELSE [arg EXCEPT !.size2 = size, !.reg2 = reg]
           /\ out' = ReadMatrix(v, Fresh(16), size, reg)
           /\ UNCHANGED <<v, mask, stack, src, pre, ret, kind, ambient>>

(***************************************************************************)
(* Specification SpecXfer: one transfer call, on any code, under any write *)
(* mask, from either initial register file.                                *)
(***************************************************************************)
InitXfer ==
    /\ v \in {TokenFile, RepeatFile}
    /\ mask \in 0..15
    /\ stack = 0
    /\ Idle

DoWriteVector == WriteVectorCall(Codes, "done")

DoWriteMatrix == WriteMatrixCall(Codes, "done")

DoReadVector == ReadVectorCall(Codes, "idle", "done")

DoReadMatrix == ReadMatrixCall(Codes, "idle", "done")

NextXfer == DoWriteVector \/ DoWriteMatrix \/ DoReadVector \/ DoReadMatrix

SpecXfer == InitXfer /\ [][NextXfer]_vars

(***************************************************************************)
(* Specification SpecRoundTrip: a write followed by a read, the two calls  *)
(* on any sizes and any codes of banks 0..MaxBank, with the write mask     *)
(* all clear or all set.                                                   *)
(***************************************************************************)
InitRoundTrip ==
    /\ v \in {TokenFile, RepeatFile}
    /\ mask \in {0, 15}
    /\ stack = 0
    /\ Idle

RtWriteVector == WriteVectorCall(BankCodes, "written")

RtWriteMatrix == WriteMatrixCall(BankCodes, "written")

RtReadVector == ReadVectorCall(BankCodes, "written", "read")

RtReadMatrix == ReadMatrixCall(BankCodes, "written", "read")

NextRoundTrip == RtWriteVector \/ RtWriteMatrix \/ RtReadVector \/ RtReadMatrix

SpecRoundTrip == InitRoundTrip /\ [][NextRoundTrip]_vars

(***************************************************************************)
(* Claims about transfer.                                                  *)
(***************************************************************************)
\* The lane of the cell at (row i, col j) of the tile a matrix code addresses.
SpecCell(code, size, i, j) ==
    SpecBank(code) * 4 +
        (IF SpecTranspose(size, code) = 1
         THEN ((SpecRow(size, code) + i) % 4) + ((SpecCol(code) + j) % 4) * 32
         ELSE ((SpecCol(code) + j) % 4) + ((SpecRow(size, code) + i) % 4) * 32)

\* Bit i of the write mask is set.
MaskBit(i) == (mask \div Pow2(i)) % 2 = 1

\* Every lane outside the set keeps the value it had before the write.
OtherLanesKept(lanes) ==
    \A l \in (0..127) \ lanes : V(v, l) = V(pre, l)

\* C5 (under SpecRoundTrip): with the write mask all clear, WriteVector(src,
\* size, code) followed by ReadVector(dst, size, code) gives dst[i] = src[i]
\* for every i < elementCount(size) and leaves every lane outside the decoded
\* set as it was; likewise WriteMatrix followed by ReadMatrix on the
\* side*side cells.
C5_WriteReadRoundTrip ==
    (pc = "read" /\ mask = 0 /\ arg.size2 = arg.size /\ arg.reg2 = arg.reg) =>
        /\ fn = "ReadVector" =>
               LET d == SpecDecodeVector(arg.reg, arg.size)
               IN  /\ \A i \in DOMAIN d : out[i] = src[i]
                   /\ OtherLanesKept({d[i] : i \in DOMAIN d})
        /\ fn = "ReadMatrix" =>
               LET side == GetMatrixSideSafe(arg.size)
               IN  /\ \A i, j \in 0..(side - 1) : out[j * 4 + i] = src[j * 4 + i]
                   /\ OtherLanesKept(SpecTile(arg.reg, arg.size))

\* A transposed Triple written and read back: three new values, rd[3] unset.
C5_Witness ==
    /\ pc = "read"
    /\ mask = 0
    /\ fn = "ReadVector"
    /\ arg = [size |-> "V_Triple", reg |-> 99, size2 |-> "V_Triple", reg2 |-> 99]
    /\ <<out[0], out[1], out[2], out[3]>> = <<200, 201, 202, -1>>
    /\ V(pre, 97) # 200

\* C6 (under SpecXfer): after WriteVector, lane DecodeVector(code,size)[i]
\* holds src[i] if mask bit i is clear and its previous value if the bit is
\* set, for each i < elementCount(size); every other lane is unchanged; a
\* Single write with mask bit 0 set changes nothing.
C6_WriteVectorMask ==
    fn = "WriteVector" =>
        LET d == SpecDecodeVector(arg.reg, arg.size)
        IN  /\ \A i \in DOMAIN d :
                   V(v, d[i]) = (IF MaskBit(i) THEN V(pre, d[i]) ELSE src[i])
            /\ OtherLanesKept({d[i] : i \in DOMAIN d})
            /\ (arg.size = "V_Single" /\ MaskBit(0)) => v = pre

\* A Quad written under mask 0b0110: elements 0 and 3 stored, 1 and 2 kept.
C6_Witness ==
    /\ fn = "WriteVector"
    /\ arg.size = "V_Quad"
    /\ arg.reg = 66
    /\ mask = 6
    /\ pre = TokenFile
    /\ <<V(v, 66), V(v, 98), V(v, 2), V(v, 34)>> = <<200, V(pre, 98), V(pre, 2), 203>>

\* C7 (under SpecXfer): WriteMatrix leaves the cell at (row i, col j)
\* unwritten iff j = side-1 and mask bit i is set; every other cell of the
\* tile receives src[j*4+i], the full 4x4 tile at column 0, row 0 included;
\* no lane outside the tile changes.
C7_WriteMatrixMask ==
    fn = "WriteMatrix" =>
        LET side == GetMatrixSideSafe(arg.size)
        IN  /\ \A i, j \in 0..(side - 1) :
                   V(v, SpecCell(arg.reg, arg.size, i, j)) =
                       (IF j = side - 1 /\ MaskBit(i)
                        THEN V(pre, SpecCell(arg.reg, arg.size, i, j))
                        ELSE src[j * 4 + i])
            /\ OtherLanesKept(SpecTile(arg.reg, arg.size))

\* The full 4x4 tile of bank 1, transposed, under mask 0b0101: rows 0 and 2 of
\* the last column are kept, the other 14 cells are stored.
C7_Witness ==
    /\ fn = "WriteMatrix"
    /\ arg.size = "M_4x4"
    /\ arg.reg = 36
    /\ mask = 5
    /\ pre = TokenFile
    /\ Cardinality({l \in SpecTile(36, "M_4x4") : V(v, l) # V(pre, l)}) = 14
    /\ V(v, SpecCell(36, "M_4x4", 0, 3)) = V(pre, SpecCell(36, "M_4x4", 0, 3))
    /\ V(v, SpecCell(36, "M_4x4", 0, 0)) = 200

(***************************************************************************)
(* 32-bit words of the arithmetic kernels.                                 *)
(*                                                                         *)
(* float2int.i is a uint32_t.  TLC's integers end at 2^31-1, so a word is  *)
(* the record of its bit 31 (s) and of its low 31 bits (m); every other    *)
(* quantity of the kernels is computed in ranges that fit, with 64-bit     *)
(* products and quotients computed by limbs.                               *)
(***************************************************************************)
Bits(s, m) == [s |-> s, m |-> m]

\* (x >> 23) & 0xFF
get_uexp(x) == (x.m \div 2^23) % 256

\* get_uexp(x) - 127
get_exp(x) == get_uexp(x) - 127

\* (x & 0x007FFFFF) | 0x00800000
get_mant(x) == (x.m % 2^23) + 2^23

\* x & 0x80000000, kept as the bit itself
get_sign(x) == x.s

\* x >> k for 0 <= x < 2^31 and k >= 0
Shr32(x, k) == IF k >= 31 THEN 0 ELSE x \div 2^k

RECURSIVE BitLength(_)
BitLength(x) == IF x = 0 THEN 0 ELSE 1 + BitLength(x \div 2)

\* Number of leading zero bits of a non-zero 32-bit value.
clz32_nonzero(x) == 32 - BitLength(x)

(***************************************************************************)
(* vfpu_dot.                                                               *)
(***************************************************************************)
\* A product shifted one bit too little.
MantProductShift24(amant, bmant) ==
    LET a1 == amant \div 2^13
        a0 == amant % 2^13
        b1 == bmant \div 2^13
        b0 == bmant % 2^13
        mid == a1 * b0 + a0 * b1
        low == (mid % 2^12) * 2^13 + a0 * b0
    IN  BitAnd(4 * (a1 * b1) + 2 * (mid \div 2^12) + (low \div 2^24), \H7FFFFFFF)

\* (((uint64_t)amant * bmant) >> 25) & 0x7FFFFFFF for 26-bit operands: with
\* amant = a1*2^13 + a0 and bmant = b1*2^13 + b0 the product is
\* (2*a1*b1 + mid \div 2^12) * 2^25 + low.
MantProduct(amant, bmant) ==
    LET a1 == amant \div 2^13
        a0 == amant % 2^13
        b1 == bmant \div 2^13
        b0 == bmant % 2^13
        mid == a1 * b0 + a0 * b1
        low == (mid % 2^12) * 2^13 + a0 * b0
    IN  BitAnd(2 * (a1 * b1) + (mid \div 2^12) + (low \div 2^25), \H7FFFFFFF)

\* An infinite operand that only looks at its own fraction.
InfLaneIsNaNFractionOnly(inf, otherexp) == inf.m % 2^23 # 0

\* The test made on an operand whose exponent field is 255: the lane is a
\* NaN when the operand has a fraction or the other exponent field is 0.
InfLaneIsNaN(inf, otherexp) == inf.m % 2^23 # 0 \/ otherexp = 0

\* last_inf != -1 && signs[i] != last_inf
InfSignClash(last_inf, sign) == last_inf # -1 /\ sign # last_inf

\* One lane of the first loop, up to signs[i]: nan is the early return.
DotLane(a, b) ==
    LET aexp == get_uexp(a)
        bexp == get_uexp(b)
        amant == get_mant(a) * 4
        bmant == get_mant(b) * 4
        sign == (get_sign(a) + get_sign(b)) % 2
        infmant == get_mant(Bits(0, 0)) * 4
    IN  IF aexp = 255
        THEN IF InfLaneIsNaN(a, bexp)
             THEN [nan |-> TRUE, exp |-> 255, mant |-> 0, sign |-> sign]
             ELSE [nan |-> FALSE, exp |-> 255, mant |-> infmant, sign |-> sign]
        ELSE IF bexp = 255
        THEN IF InfLaneIsNaN(b, aexp)
             THEN [nan |-> TRUE, exp |-> 255, mant |-> 0, sign |-> sign]
             ELSE [nan |-> FALSE, exp |-> 255, mant |-> infmant, sign |-> sign]
        ELSE [nan |-> FALSE, exp |-> aexp + bexp - 127,
              mant |-> MantProduct(amant, bmant), sign |-> sign]

\* The first loop from lane i on: exps, mants and signs are kept in lanes.
RECURSIVE DotLoop(_, _, _, _, _, _)
DotLoop(a, b, i, lanes, max_exp, last_inf) ==
    IF i = 4 THEN [nan |-> FALSE, lanes |-> lanes, max_exp |-> max_exp]
    ELSE LET l == DotLane(a[i], b[i])
         IN  IF l.nan THEN [nan |-> TRUE]
             ELSE IF l.exp >= 255 /\ InfSignClash(last_inf, l.sign)
             THEN [nan |-> TRUE]
             ELSE DotLoop(a, b, i + 1, [lanes EXCEPT ![i] = l],
                          IF l.exp > max_exp THEN l.exp ELSE max_exp,
                          IF l.exp >= 255 THEN l.sign ELSE last_inf)

\* One lane of the second loop: the mantissa aligned to max_exp and signed.
AlignLane(l, max_exp) ==
    LET exp == max_exp - l.exp
        m == IF exp >= 32 THEN 0 ELSE Shr32(l.mant, exp)
    IN  IF l.sign # 0 THEN -m ELSE m

\* The rounding of a sum of more than 24 bits (shift < 0): the sum after the
\* two round-to-nearest tests, before it is shifted right.
DotRoundUp(mant_sum, shift) ==
    LET round_bit == 2^(-shift - 1)
    IN  IF BitAnd(mant_sum, round_bit) # 0 /\ BitAnd(mant_sum, round_bit * 2) # 0
        THEN mant_sum + round_bit
        ELSE IF BitAnd(mant_sum, round_bit) # 0 /\ BitAnd(mant_sum, round_bit - 1) # 0
        THEN mant_sum + round_bit
        ELSE mant_sum

\* Mutant of DotNormalise: a sum of fewer than 24 bits is not shifted left.
DotNormaliseNoLeftShift(mant_sum0) ==
    LET shift0 == clz32_nonzero(mant_sum0) - 8
        rounded == IF shift0 < 0 THEN DotRoundUp(mant_sum0, shift0) ELSE mant_sum0
        shift == IF rounded # mant_sum0 THEN clz32_nonzero(rounded) - 8 ELSE shift0
    IN  [shift |-> shift,
         mant_sum |-> IF shift0 < 0 THEN Shr32(rounded, -shift) ELSE mant_sum0]

\* The renormalisation of the non-zero sum: the shift and the mantissa that
\* the debug assertion then looks at.
DotNormalise(mant_sum0) ==
    LET shift0 == clz32_nonzero(mant_sum0) - 8
        rounded == IF shift0 < 0 THEN DotRoundUp(mant_sum0, shift0) ELSE mant_sum0
        shift == IF rounded # mant_sum0 THEN clz32_nonzero(rounded) - 8 ELSE shift0
    IN  [shift |-> shift,
         mant_sum |-> IF shift0 < 0 THEN Shr32(rounded, -shift)
                      ELSE mant_sum0 * 2^shift]

\* From the sum on: normalisation, rounding and the packing of the result;
\* assert says that _dbg_assert_msg_((mant_sum & 0x00800000) != 0) failed.
DotPack(sum, max_exp0) ==
    LET sign_sum == IF sum < 0 THEN 1 ELSE 0
        mant_sum0 == (IF sum < 0 THEN -sum ELSE sum) \div 4
        n == DotNormalise(mant_sum0)
        max_exp == max_exp0 - n.shift
        failed == BitAnd(n.mant_sum, \H00800000) = 0
    IN  IF mant_sum0 = 0 \/ max_exp0 <= 0
        THEN [assert |-> FALSE, val |-> Bits(0, 0)]
        ELSE IF max_exp >= 255
        THEN [assert |-> failed, val |-> Bits(sign_sum, 255 * 2^23)]
        ELSE IF max_exp <= 0 THEN [assert |-> failed, val |-> Bits(0, 0)]
        ELSE [assert |-> failed,
              val |-> Bits(sign_sum, max_exp * 2^23 + (n.mant_sum % 2^23))]

\* vfpu_dot(a, b) with the outcome of its debug assertion.
DotResult(a, b) ==
    LET first == DotLoop(a, b, 0, [i \in 0..3 |-> 0], 0, -1)
        sum == AlignLane(first.lanes[0], first.max_exp)
                 + AlignLane(first.lanes[1], first.max_exp)
                 + AlignLane(first.lanes[2], first.max_exp)
                 + AlignLane(first.lanes[3], first.max_exp)
    IN  IF first.nan THEN [assert |-> FALSE, val |-> Bits(0, \H7F800001)]
        ELSE DotPack(sum, first.max_exp)

vfpu_dot(a, b) == DotResult(a, b).val

(***************************************************************************)
(* Operands of the dot product.  Each lane holds one pair (a[i], b[i]).    *)
(***************************************************************************)
PlusZero == Bits(0, 0)
MinusZero == Bits(1, 0)
PlusOne == Bits(0, \H3F800000)
PlusInf == Bits(0, \H7F800000)
MinusInf == Bits(1, \H7F800000)

\* Normal finite values: both signs, the smallest, a middle and the largest
\* exponent field, four fractions.
NormalFloats ==
    {Bits(s, e * 2^23 + f) : s \in {0, 1}, e \in {1, 127, 254},
                             f \in {0, 1, \H490FDB, \H7FFFFF}}

LanePairs ==
    { <<PlusZero, PlusZero>>,
      <<PlusOne, PlusOne>>,
      <<Bits(1, \H3FC00000), Bits(0, \H40490FDB)>>,
      <<PlusInf, PlusZero>>,
      <<MinusZero, PlusInf>>,
      <<Bits(0, 1), MinusInf>>,
      <<PlusInf, PlusOne>>,
      <<Bits(1, \H40000000), PlusInf>>,
      <<Bits(0, \H7FC00000), PlusOne>>,
      <<PlusInf, Bits(0, \H7F800001)>>,
      <<Bits(0, \H7F7FFFFF), Bits(0, \H7F7FFFFF)>>,
      <<Bits(0, \H00800000), Bits(1, \H00800000)>> }

Lane0Pairs == LanePairs \cup {<<x, PlusOne>> : x \in NormalFloats}

InitDot ==
    /\ v = TokenFile
    /\ mask = 0
    /\ stack = 0
    /\ Idle

DoVfpuDot ==
    /\ pc = "idle"
    /\ \E p0 \in Lane0Pairs, p1, p2, p3 \in LanePairs :
           LET a == [i \in 0..3 |-> <<p0, p1, p2, p3>>[i + 1][1]]
               b == [i \in 0..3 |-> <<p0, p1, p2, p3>>[i + 1][2]]
           IN  /\ pc' = "done"
               /\ fn' = "vfpu_dot"
               /\ arg' = [a |-> a, b |-> b]
               /\ out' = vfpu_dot(a, b)
               /\ ret' = 0
               /\ kind' = IF DotResult(a, b).assert THEN "assert" ELSE "-"
               /\ UNCHANGED <<v, mask, stack, src, pre, ambient>>

NextDot == DoVfpuDot

SpecDot == InitDot /\ [][NextDot]_vars

\* The lanes 1..3 of the call hold zeros in both operands.
OtherLanesZero ==
    \A i \in 1..3 : arg.a[i] = PlusZero /\ arg.b[i] = PlusZero

\* x is a normal finite value: its exponent field is neither 0 nor 255.
IsNormal(x) == get_uexp(x) \in 1..254

\* C11 (under SpecDot): the dot product of {x,0,0,0} with {1,0,0,0} is x bit
\* for bit for every normal finite x; for x = 1.0 it is 0x3F800000.
C11_DotUnitLane ==
    (fn = "vfpu_dot" /\ OtherLanesZero /\ arg.b[0] = PlusOne /\ IsNormal(arg.a[0]))
        => out = arg.a[0]

\* x = -(2 - 2^-23) * 2^127, the largest normal magnitude, comes back whole.
C11_Witness ==
    /\ fn = "vfpu_dot"
    /\ OtherLanesZero
    /\ arg.b[0] = PlusOne
    /\ arg.a[0] = Bits(1, \H7F7FFFFF)
    /\ out = Bits(1, \H7F7FFFFF)

IsInf(x) == x.m = \H7F800000

IsNaN(x) == x.m > \H7F800000

\* Lane i of the call pairs an infinity with a value whose exponent field is
\* zero (a zero or a denormal), in either operand order.
InfTimesZeroLane(i) ==
    \/ IsInf(arg.a[i]) /\ get_uexp(arg.b[i]) = 0
    \/ IsInf(arg.b[i]) /\ get_uexp(arg.a[i]) = 0

\* Lane i of the call multiplies an infinity by a value that is neither a
\* NaN nor of zero exponent field, and the product has sign bit s.
InfProductLane(i, s) ==
    /\ \/ IsInf(arg.a[i]) /\ ~IsNaN(arg.b[i]) /\ get_uexp(arg.b[i]) # 0
       \/ IsInf(arg.b[i]) /\ ~IsNaN(arg.a[i]) /\ get_uexp(arg.a[i]) # 0
    /\ (arg.a[i].s + arg.b[i].s) % 2 = s

\* C12 (under SpecDot): vfpu_dot returns the canonical NaN 0x7F800001 when
\* some lane pairs an infinity with a zero-exponent value in either operand
\* order, whatever the other lanes hold, and when two lanes produce infinite
\* products of opposite sign.
C12_DotInvalidIsNaN ==
    (fn = "vfpu_dot" /\ (\/ \E i \in 0..3 : InfTimesZeroLane(i)
                         \/ \E i, j \in 0..3 : InfProductLane(i, 0) /\ InfProductLane(j, 1)))
        => out = Bits(0, \H7F800001)

\* Lane 2 holds -0 * +inf behind two finite lanes and before an overflowing
\* one; no other lane holds an infinity or a NaN.
C12_Witness ==
    /\ fn = "vfpu_dot"
    /\ arg.a[2] = MinusZero /\ arg.b[2] = PlusInf
    /\ arg.a[0] = PlusOne /\ arg.b[0] = PlusOne
    /\ arg.a[1] = Bits(1, \H3FC00000)
    /\ arg.a[3] = Bits(0, \H7F7FFFFF)
    /\ InfTimesZeroLane(2)
    /\ out = Bits(0, \H7F800001)

(***************************************************************************)
(* vfpu_sqrt.                                                              *)
(***************************************************************************)
\* Long division, n more quotient bits: q and r are the quotient and the
\* remainder of the dividend's leading part by z.
RECURSIVE LongDiv(_, _, _, _)
LongDiv(q, r, n, z) ==
    IF n = 0 THEN q
    ELSE IF 2 * r >= z THEN LongDiv(2 * q + 1, 2 * r - z, n - 1, z)
    ELSE LongDiv(2 * q, 2 * r, n - 1, z)

\* (uint32_t)(halfsp / z) for the 64-bit halfsp = h << n.
DivShifted(h, n, z) == LongDiv(h \div z, h % z, n, z)

\* A Newton step that does not halve z.
SqrtStepNoHalving(z, h, n) == z + DivShifted(h, n, z)

\* z = (z >> 1) + (uint32_t)(halfsp / z)
SqrtStep(z, h, n) == (z \div 2) + DivShifted(h, n, z)

RECURSIVE SqrtLoop(_, _, _, _)
SqrtLoop(i, z, h, n) ==
    IF i = 6 THEN z ELSE SqrtLoop(i + 1, SqrtStep(z, h, n), h, n)

\* A flush test that looks at every magnitude bit.
SqrtFlushesExactZero(x) == x.m = 0

\* (val.i & 0x7f800000) == 0
SqrtFlushes(x) == (x.m \div 2^23) % 256 = 0

vfpu_sqrt(x) ==
    IF x.s = 0 /\ x.m \div 2^23 = 255
    THEN IF x.m % 2^23 # 0 THEN Bits(0, \H7F800001) ELSE x
    ELSE IF SqrtFlushes(x) THEN Bits(0, 0)
    ELSE IF x.s # 0 THEN Bits(0, \H7F800001)
    ELSE LET k0 == get_exp(x)
             sp == get_mant(x)
             less_bits == k0 % 2
             k == k0 \div 2
             z == SqrtLoop(0, Shr32(\HC00000, less_bits), sp \div 2, 23 - less_bits)
             m == (k + 127) * 2^23 + ((z * 2^less_bits) % 2^23)
         IN  Bits(0, m - (m % 4))

(***************************************************************************)
(* vfpu_rsqrt.  Over all normal inputs the operands of mant_mul stay below *)
(* 2^24 and mant_mul(halfsp, zsq) stays below 0x00C00000, so the unsigned  *)
(* subtraction never wraps.                                                *)
(***************************************************************************)
\* m = (uint64_t)a * b; if (m & 0x007FFFFF) m += 0x01437000; m >> 23, for
\* operands below 2^25: with a = a1*2^12 + a0 and b = b1*2^12 + b0 the
\* product is (2*a1*b1 + mid \div 2^11) * 2^23 + low.
mant_mul(a, b) ==
    LET a1 == a \div 2^12
        a0 == a % 2^12
        b1 == b \div 2^12
        b0 == b % 2^12
        mid == a1 * b0 + a0 * b1
        low == (mid % 2^11) * 2^12 + a0 * b0
        hi == 2 * (a1 * b1) + (mid \div 2^11) + (low \div 2^23)
        lo == low % 2^23
    IN  IF lo # 0 THEN hi + ((lo + \H01437000) \div 2^23) ELSE hi

\* A correction taken from 1.0 instead of 1.5.
RsqrtCorrectionFromOne(t) == \H00800000 - t

\* correction = 0x00C00000 - mant_mul(halfsp, zsq)
RsqrtCorrection(t) == \H00C00000 - t

RECURSIVE RsqrtLoop(_, _, _)
RsqrtLoop(i, z, halfsp) ==
    IF i = 6 THEN z
    ELSE LET zsq == mant_mul(z, z)
             correction == RsqrtCorrection(mant_mul(halfsp, zsq))
         IN  RsqrtLoop(i + 1, mant_mul(z, correction), halfsp)

\* A division-by-zero test that looks at every magnitude bit.
RsqrtDividesByExactZero(x) == x.m = 0

\* (val.i & 0x7f800000) == 0
RsqrtDividesByZero(x) == (x.m \div 2^23) % 256 = 0

vfpu_rsqrt(x) ==
    IF x.s = 0 /\ x.m = \H7F800000 THEN Bits(0, 0)
    ELSE IF x.m > \H7F800000 THEN Bits(x.s, \H7F800001)
    ELSE IF RsqrtDividesByZero(x) THEN Bits(x.s, \H7F800000)
    ELSE IF x.s # 0 THEN Bits(1, \H7F800001)
    ELSE LET k0 == get_exp(x)
             sp == get_mant(x)
             less_bits == k0 % 2
             k1 == -(k0 \div 2)
             z0 == RsqrtLoop(0, Shr32(\H00800000, less_bits), Shr32(sp, 1 + less_bits))
             shift == clz32_nonzero(z0) - 8 + less_bits
             z1 == IF shift < 1 THEN Shr32(z0, -shift) ELSE z0 * 2^shift
             k == k1 - shift
             z == Shr32(z1, less_bits)
             m == (k + 127) * 2^23 + (z % 2^23)
         IN  Bits(0, m - (m % 4))

(***************************************************************************)
(* Operands of the square roots: the even powers of two, every special     *)
(* class (zeros, denormals, infinities, NaNs of both signs) and normal     *)
(* values of both signs.                                                   *)
(***************************************************************************)
EvenPowers == {Bits(0, (2 * n + 1) * 2^23) : n \in 0..126}

SpecialFloats ==
    {Bits(s, e * 2^23 + f) : s \in {0, 1}, e \in {0, 255},
                             f \in {0, 1, \H400000, \H7FFFFF}}

RootInputs == EvenPowers \cup SpecialFloats \cup NormalFloats

InitRoots ==
    /\ v = TokenFile
    /\ mask = 0
    /\ stack = 0
    /\ Idle

DoVfpuSqrt ==
    /\ pc = "idle"
    /\ \E x \in RootInputs :
           /\ pc' = "done"
           /\ fn' = "vfpu_sqrt"
           /\ arg' = [x |-> x]
           /\ out' = vfpu_sqrt(x)
           /\ ret' = 0
           /\ kind' = "-"
           /\ UNCHANGED <<v, mask, stack, src, pre, ambient>>

DoVfpuRsqrt ==
    /\ pc = "idle"
    /\ \E x \in RootInputs :
           /\ pc' = "done"
           /\ fn' = "vfpu_rsqrt"
           /\ arg' = [x |-> x]
           /\ out' = vfpu_rsqrt(x)
           /\ ret' = 0
           /\ kind' = "-"
           /\ UNCHANGED <<v, mask, stack, src, pre, ambient>>

NextRoots == DoVfpuSqrt \/ DoVfpuRsqrt

SpecRoots == InitRoots /\ [][NextRoots]_vars

\* x is the normal value 2^(2n): positive, no fraction, odd exponent field.
IsEvenPower(x) ==
    x.s = 0 /\ x.m % 2^23 = 0 /\ IsNormal(x) /\ get_uexp(x) % 2 = 1

\* The n of the even power 2^(2n).
HalfExponent(x) == (get_uexp(x) - 127) \div 2

\* C13 (under SpecRoots): vfpu_sqrt of the normal even power of two 2^(2n) is
\* exactly the bit pattern of 2^n; vfpu_sqrt(4.0) is the bit pattern of 2.0.
C13_SqrtEvenPower ==
    (fn = "vfpu_sqrt" /\ IsEvenPower(arg.x))
        => out = Bits(0, (127 + HalfExponent(arg.x)) * 2^23)

C13_Witness ==
    /\ fn = "vfpu_sqrt"
    /\ arg.x = Bits(0, \H40800000)
    /\ out = Bits(0, \H40000000)

\* C14 as stated: every NaN gives 0x7F800001, +infinity is returned
\* unchanged, +0 and -0 give 0x00000000, and every negative input other than
\* -0 (negative denormals included) gives 0x7F800001.
C14_Original ==
    fn = "vfpu_sqrt" =>
        /\ IsNaN(arg.x) => out = Bits(0, \H7F800001)
        /\ arg.x = PlusInf => out = PlusInf
        /\ arg.x.m = 0 => out = PlusZero
        /\ (arg.x.s = 1 /\ arg.x.m # 0) => out = Bits(0, \H7F800001)

\* C14 (under SpecRoots), amended: every NaN gives 0x7F800001, +infinity is
\* returned unchanged, every input whose exponent field is zero (+0, -0 and
\* the denormals of both signs) gives 0x00000000, and every negative input
\* with a non-zero exponent field (-infinity included) gives 0x7F800001.
C14_SqrtSpecials ==
    fn = "vfpu_sqrt" =>
        /\ IsNaN(arg.x) => out = Bits(0, \H7F800001)
        /\ arg.x = PlusInf => out = PlusInf
        /\ get_uexp(arg.x) = 0 => out = PlusZero
        /\ (arg.x.s = 1 /\ get_uexp(arg.x) # 0) => out = Bits(0, \H7F800001)

\* The smallest negative denormal is flushed to +0.
C14_Witness ==
    /\ fn = "vfpu_sqrt"
    /\ arg.x = Bits(1, 1)
    /\ out = PlusZero

\* C15 (under SpecRoots): vfpu_rsqrt of the normal even power of two 2^(2n)
\* is exactly the bit pattern of 2^(-n); vfpu_rsqrt(4.0) is the bit pattern
\* of 0.5.
C15_RsqrtEvenPower ==
    (fn = "vfpu_rsqrt" /\ IsEvenPower(arg.x))
        => out = Bits(0, (127 - HalfExponent(arg.x)) * 2^23)

C15_Witness ==
    /\ fn = "vfpu_rsqrt"
    /\ arg.x = Bits(0, \H40800000)
    /\ out = Bits(0, \H3F000000)

\* C16 as stated: +infinity gives +0, every NaN gives sign | 0x7F800001, +0
\* and -0 give the infinity of the input's sign, and every negative input
\* other than -0 (negative denormals included) gives 0xFF800001.
C16_Original ==
    fn = "vfpu_rsqrt" =>
        /\ arg.x = PlusInf => out = PlusZero
        /\ IsNaN(arg.x) => out = Bits(arg.x.s, \H7F800001)
        /\ arg.x.m = 0 => out = Bits(arg.x.s, \H7F800000)
        /\ (arg.x.s = 1 /\ arg.x.m # 0) => out = Bits(1, \H7F800001)

\* C16 (under SpecRoots), amended: +infinity gives +0, every NaN gives
\* sign | 0x7F800001, every input whose exponent field is zero (+0, -0 and
\* the denormals of both signs) gives the infinity of the input's sign, and
\* every negative input with a non-zero exponent field gives 0xFF800001.
C16_RsqrtSpecials ==
    fn = "vfpu_rsqrt" =>
        /\ arg.x = PlusInf => out = PlusZero
        /\ IsNaN(arg.x) => out = Bits(arg.x.s, \H7F800001)
        /\ get_uexp(arg.x) = 0 => out = Bits(arg.x.s, \H7F800000)
        /\ (arg.x.s = 1 /\ get_uexp(arg.x) # 0) => out = Bits(1, \H7F800001)

\* The largest negative denormal gives -infinity.
C16_Witness ==
    /\ fn = "vfpu_rsqrt"
    /\ arg.x = Bits(1, \H007FFFFF)
    /\ out = MinusInf

(***************************************************************************)
(* vfpu_sin and vfpu_cos.  The platform's sin and cos are not computed: a  *)
(* result names the platform function when one is called (lib) and then    *)
(* carries the word handed to it (val) and whether its value is negated    *)
(* after the two low bits are cleared (negate); with lib = "-" the result  *)
(* is val itself.                                                          *)
(***************************************************************************)
PRECISION_EXP_THRESHOLD == \H65

Exact(w) == [lib |-> "-", val |-> w, negate |-> FALSE]

Platform(f, w, negate) == [lib |-> f, val |-> w, negate |-> negate]

\* (mantissa << over) & 0x00FFFFFF for a 24-bit mantissa and over in 0..31
ShiftedMantissa(mantissa, over) ==
    IF over >= 24 THEN 0 ELSE (mantissa % 2^(24 - over)) * 2^over

\* The modulus by 4: k > 0x80 shifts the mantissa by k & 0x1F and sets k to
\* 0x80.
ReduceMantissa(k, mantissa) ==
    IF k > \H80 THEN ShiftedMantissa(mantissa, k % 32) ELSE mantissa

ReduceExp(k) == IF k > \H80 THEN \H80 ELSE k

\* A test that lets exactly 2.0 through.
CrossesTwoStrictly(k, mantissa) == k = \H80 /\ mantissa > 2^23

\* k == 0x80 && mantissa >= (1 << 23)
CrossesTwo(k, mantissa) == k = \H80 /\ mantissa >= 2^23

\* mantissa == 0 ? 32 : (int8_t)clz32_nonzero(mantissa) - 8
NormShift(mantissa) ==
    IF mantissa = 0 THEN 32 ELSE clz32_nonzero(mantissa) - 8

\* The reduction shared by the three functions, from the exponent field k on:
\* flip says that 2 was subtracted, k and mantissa are the normalised ones.
Reduce(x) ==
    LET k1 == ReduceExp(get_uexp(x))
        m1 == ReduceMantissa(get_uexp(x), get_mant(x))
        flip == CrossesTwo(k1, m1)
        m2 == IF flip THEN m1 - 2^23 ELSE m1
        norm_shift == NormShift(m2)
    IN  [flip |-> flip,
         k |-> k1 - norm_shift,
         mantissa |-> IF m2 = 0 THEN 0 ELSE m2 * 2^norm_shift]

\* (sign) | (k << 23) | (mantissa & ~(1 << 23))
Reduced(sign, r) == Bits(sign, r.k * 2^23 + (r.mantissa % 2^23))

vfpu_sin(x) ==
    LET r == Reduce(x)
        sign == IF r.flip THEN 1 - x.s ELSE x.s
    IN  IF get_uexp(x) = 255 THEN Exact(Bits(x.s, \H7F800001))
        ELSE IF get_uexp(x) < PRECISION_EXP_THRESHOLD THEN Exact(Bits(x.s, 0))
        ELSE IF r.k <= 0 \/ r.mantissa = 0 THEN Exact(Bits(sign, 0))
        ELSE Platform("sin", Reduced(sign, r), FALSE)

vfpu_cos(x) ==
    LET r == Reduce(x)
        negate == r.flip
    IN  IF get_uexp(x) = 255 THEN Exact(Bits(0, \H7F800001))
        ELSE IF get_uexp(x) < PRECISION_EXP_THRESHOLD THEN Exact(PlusOne)
        ELSE IF r.k <= 0 \/ r.mantissa = 0
        THEN Exact(IF negate THEN Bits(1, \H3F800000) ELSE PlusOne)
        ELSE IF Reduced(x.s, r).m = \H3F800000
        THEN Exact(IF negate THEN PlusZero ELSE MinusZero)
        ELSE Platform("cos", Reduced(x.s, r), negate)

\* Mutant of SincosTiny: the sine is +0.0 whatever the input's sign.
SincosTinyUnsigned(x) == [s |-> Exact(PlusZero), c |-> Exact(PlusOne)]

\* vfpu_sincos below the threshold: val.i &= 0x80000000; s = val.f; c = 1.0f.
SincosTiny(x) == [s |-> Exact(Bits(x.s, 0)), c |-> Exact(PlusOne)]

\* Mutant of SincosZero: the sign of the sine is not flipped with negate.
SincosZeroUnflipped(x, negate) ==
    [s |-> Exact(Bits(x.s, 0)),
     c |-> Exact(IF negate THEN Bits(1, \H3F800000) ELSE PlusOne)]

\* vfpu_sincos when the reduction leaves nothing: a zero with the input's
\* sign, flipped if negate, and -1.0 or 1.0.
SincosZero(x, negate) ==
    [s |-> Exact(Bits(IF negate THEN 1 - x.s ELSE x.s, 0)),
     c |-> Exact(IF negate THEN Bits(1, \H3F800000) ELSE PlusOne)]

\* vfpu_sincos(a, s, c): the two results.
vfpu_sincos(x) ==
    LET r == Reduce(x)
        negate == r.flip
        val == Reduced(x.s, r)
    IN  IF get_uexp(x) = 255
        THEN [s |-> Exact(Bits(x.s, \H7F800001)),
              c |-> Exact(Bits(0, \H7F800001))]
        ELSE IF get_uexp(x) < PRECISION_EXP_THRESHOLD THEN SincosTiny(x)
        ELSE IF r.k <= 0 \/ r.mantissa = 0 THEN SincosZero(x, negate)
        ELSE IF val = PlusOne
        THEN [s |-> Exact(IF negate THEN Bits(1, \H3F800000) ELSE PlusOne),
              c |-> Exact(IF negate THEN PlusZero ELSE MinusZero)]
        ELSE IF val = Bits(1, \H3F800000)
        THEN [s |-> Exact(IF negate THEN PlusOne ELSE Bits(1, \H3F800000)),
              c |-> Exact(IF negate THEN PlusZero ELSE MinusZero)]
        ELSE IF negate
        THEN [s |-> Platform("sin", Bits(1 - val.s, val.m), FALSE),
              c |-> Platform("cos", val, TRUE)]
        ELSE [s |-> Platform("sincos", val, FALSE),
              c |-> Platform("sincos", val, FALSE)]

(***************************************************************************)
(* Angles: both signs, exponent fields around the flush threshold, around  *)
(* 1.0, 2.0 and 4.0, far above them, and 255, four fractions.              *)
(***************************************************************************)
TrigExps ==
    {0, \H64, \H65, \H7E, \H7F, \H80, \H81, \H82, \H97, \H98, \HA0, \HFE, \HFF}

TrigInputs ==
    {Bits(s, e * 2^23 + f) : s \in {0, 1}, e \in TrigExps,
                             f \in {0, 1, \H400000, \H7FFFFF}}

InitTrig ==
    /\ v = TokenFile
    /\ mask = 0
    /\ stack = 0
    /\ Idle

\* A call: out is the result's word, kind the platform function called ("-"
\* for none), ret the negate flag.
DoVfpuSin ==
    /\ pc = "idle"
    /\ \E x \in TrigInputs :
           /\ pc' = "done"
           /\ fn' = "vfpu_sin"
           /\ arg' = [x |-> x]
           /\ out' = vfpu_sin(x).val
           /\ kind' = vfpu_sin(x).lib
           /\ ret' = IF vfpu_sin(x).negate THEN 1 ELSE 0
           /\ UNCHANGED <<v, mask, stack, src, pre, ambient>>

DoVfpuCos ==
    /\ pc = "idle"
    /\ \E x \in TrigInputs :
           /\ pc' = "done"
           /\ fn' = "vfpu_cos"
           /\ arg' = [x |-> x]
           /\ out' = vfpu_cos(x).val
           /\ kind' = vfpu_cos(x).lib
           /\ ret' = IF vfpu_cos(x).negate THEN 1 ELSE 0
           /\ UNCHANGED <<v, mask, stack, src, pre, ambient>>

\* A call of vfpu_sincos: out holds the two words, kind the platform
\* functions called for them, ret the negate flag of the cosine.
DoVfpuSincos ==
    /\ pc = "idle"
    /\ \E x \in TrigInputs :
           /\ pc' = "done"
           /\ fn' = "vfpu_sincos"
           /\ arg' = [x |-> x]
           /\ out' = [s |-> vfpu_sincos(x).s.val, c |-> vfpu_sincos(x).c.val]
           /\ kind' = IF vfpu_sincos(x).s.lib = vfpu_sincos(x).c.lib
                      THEN vfpu_sincos(x).s.lib ELSE "sin,cos"
           /\ ret' = IF vfpu_sincos(x).c.negate THEN 1 ELSE 0
           /\ UNCHANGED <<v, mask, stack, src, pre, ambient>>

NextTrig == DoVfpuSin \/ DoVfpuCos \/ DoVfpuSincos

SpecTrig == InitTrig /\ [][NextTrig]_vars

\* C17 (under SpecTrig): vfpu_sin(0.0) is 0.0, vfpu_cos(0.0) is 1.0 and
\* vfpu_sin(2.0) is a zero (it compares equal to 0.0), each produced without
\* a call of the platform's sine or cosine.
C17_TrigBoundaries ==
    /\ (fn = "vfpu_sin" /\ arg.x = PlusZero) => (kind = "-" /\ out = PlusZero)
    /\ (fn = "vfpu_cos" /\ arg.x = PlusZero) => (kind = "-" /\ out = PlusOne)
    /\ (fn = "vfpu_sin" /\ arg.x = Bits(0, \H40000000)) => (kind = "-" /\ out.m = 0)

\* vfpu_sin(2.0): the subtraction of 2 leaves no mantissa and flips the sign,
\* so the zero returned is -0.0.
C17_Witness ==
    /\ fn = "vfpu_sin"
    /\ arg.x = Bits(0, \H40000000)
    /\ kind = "-"
    /\ out = MinusZero

(***************************************************************************)
(* Float16ToFloat32.  The layout constants are those of the half format:   *)
(* sign at bit 15, five exponent bits from bit 10, ten fraction bits.      *)
(***************************************************************************)
VFPU_SH_FLOAT16_SIGN == 15
VFPU_MASK_FLOAT16_SIGN == 1
VFPU_SH_FLOAT16_EXP == 10
VFPU_MASK_FLOAT16_EXP == 31
VFPU_MASK_FLOAT16_FRAC == 1023
VFPU_FLOAT16_EXP_MAX == 31

\* do { fraction <<= 1; exponent--; } while (!(fraction & (MASK_FRAC + 1)))
RECURSIVE HalfNormalise(_, _)
HalfNormalise(fraction, exponent) ==
    IF BitAnd(fraction * 2, VFPU_MASK_FLOAT16_FRAC + 1) # 0
    THEN [fraction |-> fraction * 2, exponent |-> exponent - 1]
    ELSE HalfNormalise(fraction * 2, exponent - 1)

Float16ToFloat32(l) ==
    LET sign == BitAnd(Shr(l, VFPU_SH_FLOAT16_SIGN), VFPU_MASK_FLOAT16_SIGN)
        exponent == BitAnd(Shr(l, VFPU_SH_FLOAT16_EXP), VFPU_MASK_FLOAT16_EXP)
        fraction == BitAnd(l, VFPU_MASK_FLOAT16_FRAC)
        n == IF exponent = 0
             THEN [fraction |-> BitAnd(HalfNormalise(fraction, exponent).fraction,
                                       VFPU_MASK_FLOAT16_FRAC),
                   exponent |-> HalfNormalise(fraction, exponent).exponent]
             ELSE [fraction |-> fraction, exponent |-> exponent]
    IN  IF exponent = VFPU_FLOAT16_EXP_MAX THEN Bits(sign, 255 * 2^23 + fraction)
        ELSE IF exponent = 0 /\ fraction = 0 THEN Bits(IF sign = 1 THEN 1 ELSE 0, 0)
        ELSE Bits(sign, (n.exponent + 112) * 2^23 + n.fraction * 2^13)

Halves == 0..65535

InitHalf ==
    /\ v = TokenFile
    /\ mask = 0
    /\ stack = 0
    /\ Idle

DoFloat16ToFloat32 ==
    /\ pc = "idle"
    /\ \E l \in Halves :
           /\ pc' = "done"
           /\ fn' = "Float16ToFloat32"
           /\ arg' = [l |-> l]
           /\ out' = Float16ToFloat32(l)
           /\ ret' = 0
           /\ kind' = "-"
           /\ UNCHANGED <<v, mask, stack, src, pre, ambient>>

NextHalf == DoFloat16ToFloat32

SpecHalf == InitHalf /\ [][NextHalf]_vars

\* C18 (under SpecHalf): Float16ToFloat32 maps +0, -0, +1, -1, the largest
\* normal half and the smallest half subnormal to the single-precision words
\* of the same values: 0x00000000, 0x80000000, 0x3F800000, 0xBF800000,
\* 0x477FE000 and 0x33800000.
C18_HalfGrid ==
    fn = "Float16ToFloat32" =>
        /\ arg.l = \H0000 => out = Bits(0, \H00000000)
        /\ arg.l = \H8000 => out = Bits(1, \H00000000)
        /\ arg.l = \H3C00 => out = Bits(0, \H3F800000)
        /\ arg.l = \HBC00 => out = Bits(1, \H3F800000)
        /\ arg.l = \H7BFF => out = Bits(0, \H477FE000)
        /\ arg.l = \H0001 => out = Bits(0, \H33800000)

(***************************************************************************)
(* Size helpers.  A size outside the four enumerators of its type is       *)
(* V_Invalid / M_Invalid or any other value of the enum's integer type;    *)
(* the latter are kept by the names V_0, V_5, M_0 and M_5.                 *)
(***************************************************************************)
GetHalfVectorSizeSafeTriple(sz) ==
    CASE sz = "V_Pair"   -> "V_Single"
      [] sz = "V_Triple" -> "V_Pair"
      [] sz = "V_Quad"   -> "V_Pair"
      [] OTHER           -> "V_Invalid"

GetHalfVectorSizeSafe(sz) ==
    CASE sz = "V_Pair" -> "V_Single"
      [] sz = "V_Quad" -> "V_Pair"
      [] OTHER         -> "V_Invalid"

GetHalfVectorSize(sz) == Checked(GetHalfVectorSizeSafe(sz), "V_Invalid")

GetDoubleVectorSizeSafe(sz) ==
    CASE sz = "V_Single" -> "V_Pair"
      [] sz = "V_Pair"   -> "V_Quad"
      [] OTHER           -> "V_Invalid"

GetDoubleVectorSize(sz) == Checked(GetDoubleVectorSizeSafe(sz), "V_Invalid")

\* A decode that reads bit 14 in place of bit 15.
GetVecSizeSafeBit14(op) ==
    LET a == (op.m \div 2^7) % 2
        b == (op.m \div 2^14) % 2
    IN  CASE a + 2 * b = 0 -> "V_Single"
          [] a + 2 * b = 1 -> "V_Pair"
          [] a + 2 * b = 2 -> "V_Triple"
          [] a + 2 * b = 3 -> "V_Quad"
          [] OTHER         -> "V_Invalid"

\* op is a 32-bit word kept as Bits: a = (op >> 7) & 1; b = (op >> 15) & 1;
\* a += (b << 1).
GetVecSizeSafe(op) ==
    LET a == (op.m \div 2^7) % 2
        b == (op.m \div 2^15) % 2
    IN  CASE a + 2 * b = 0 -> "V_Single"
          [] a + 2 * b = 1 -> "V_Pair"
          [] a + 2 * b = 2 -> "V_Triple"
          [] a + 2 * b = 3 -> "V_Quad"
          [] OTHER         -> "V_Invalid"

GetVecSize(op) == Checked(GetVecSizeSafe(op), "V_Invalid")

GetVectorSizeSafe(sz) ==
    CASE sz = "M_1x1" -> "V_Single"
      [] sz = "M_2x2" -> "V_Pair"
      [] sz = "M_3x3" -> "V_Triple"
      [] sz = "M_4x4" -> "V_Quad"
      [] OTHER        -> "V_Invalid"

GetVectorSize(sz) == Checked(GetVectorSizeSafe(sz), "V_Invalid")

GetMatrixSize(sz) == Checked(GetMatrixSizeSafe(sz), "M_Invalid")

GetMtxSizeSafe(op) ==
    LET a == (op.m \div 2^7) % 2
        b == (op.m \div 2^15) % 2
    IN  CASE a + 2 * b = 0 -> "M_1x1"
          [] a + 2 * b = 1 -> "M_2x2"
          [] a + 2 * b = 2 -> "M_3x3"
          [] a + 2 * b = 3 -> "M_4x4"
          [] OTHER         -> "M_Invalid"

GetMtxSize(op) == Checked(GetMtxSizeSafe(op), "M_Invalid")

MatrixVectorSizeSafe(sz) ==
    CASE sz = "M_1x1" -> "V_Single"
      [] sz = "M_2x2" -> "V_Pair"
      [] sz = "M_3x3" -> "V_Triple"
      [] sz = "M_4x4" -> "V_Quad"
      [] OTHER        -> "V_Invalid"

MatrixVectorSize(sz) == Checked(MatrixVectorSizeSafe(sz), "V_Invalid")

\* A Safe helper returns res and asserts nothing.
Returned(res) == [fatal |-> FALSE, value |-> res]

(***************************************************************************)
(* Specification SpecSizes: one call of a size helper.                     *)
(***************************************************************************)
VectorSizeInputs == VectorSizes \cup {"V_Invalid", "V_0", "V_5"}

MatrixSizeInputs == MatrixSizes \cup {"M_Invalid", "M_0", "M_5"}

\* Bits 7 and 15 in every combination, among patterns of the other 30 bits.
Ops ==
    {Bits(s, a * 2^7 + b * 2^15 + rest) :
        s \in {0, 1}, a \in {0, 1}, b \in {0, 1},
        rest \in {0, 2^6, 2^8, 2^14, 2^16, \H7FFF7F7F}}

InitSizes ==
    /\ v = TokenFile
    /\ mask = 0
    /\ stack = 0
    /\ Idle

\* The call f(x) with outcome r: out is the value, kind tells whether the
\* assertion failed.
SizeCall(f, x, r) ==
    /\ pc' = "done"
    /\ fn' = f
    /\ arg' = [x |-> x]
    /\ out' = r.value
    /\ kind' = IF r.fatal THEN "assert" ELSE "-"
    /\ ret' = 0
    /\ UNCHANGED <<v, mask, stack, src, pre, ambient>>

DoGetHalfVectorSizeSafe ==
    /\ pc = "idle"
    /\ \E sz \in VectorSizeInputs :
           SizeCall("GetHalfVectorSizeSafe", sz, Returned(GetHalfVectorSizeSafe(sz)))

DoGetHalfVectorSize ==
    /\ pc = "idle"
    /\ \E sz \in VectorSizeInputs :
           SizeCall("GetHalfVectorSize", sz, GetHalfVectorSize(sz))

DoGetDoubleVectorSizeSafe ==
    /\ pc = "idle"
    /\ \E sz \in VectorSizeInputs :
           SizeCall("GetDoubleVectorSizeSafe", sz, Returned(GetDoubleVectorSizeSafe(sz)))

DoGetDoubleVectorSize ==
    /\ pc = "idle"
    /\ \E sz \in VectorSizeInputs :
           SizeCall("GetDoubleVectorSize", sz, GetDoubleVectorSize(sz))

DoGetVecSizeSafe ==
    /\ pc = "idle"
    /\ \E op \in Ops : SizeCall("GetVecSizeSafe", op, Returned(GetVecSizeSafe(op)))

DoGetVecSize ==
    /\ pc = "idle"
    /\ \E op \in Ops : SizeCall("GetVecSize", op, GetVecSize(op))

DoGetVectorSizeSafe ==
    /\ pc = "idle"
    /\ \E sz \in MatrixSizeInputs :
           SizeCall("GetVectorSizeSafe", sz, Returned(GetVectorSizeSafe(sz)))

DoGetVectorSize ==
    /\ pc = "idle"
    /\ \E sz \in MatrixSizeInputs :
           SizeCall("GetVectorSize", sz, GetVectorSize(sz))

DoGetMatrixSizeSafe ==
    /\ pc = "idle"
    /\ \E sz \in VectorSizeInputs :
           SizeCall("GetMatrixSizeSafe", sz, Returned(GetMatrixSizeSafe(sz)))

DoGetMatrixSize ==
    /\ pc = "idle"
    /\ \E sz \in VectorSizeInputs :
           SizeCall("GetMatrixSize", sz, GetMatrixSize(sz))

DoGetMtxSizeSafe ==
    /\ pc = "idle"
    /\ \E op \in Ops : SizeCall("GetMtxSizeSafe", op, Returned(GetMtxSizeSafe(op)))

DoGetMtxSize ==
    /\ pc = "idle"
    /\ \E op \in Ops : SizeCall("GetMtxSize", op, GetMtxSize(op))

DoMatrixVectorSizeSafe ==
    /\ pc = "idle"
    /\ \E sz \in MatrixSizeInputs :
           SizeCall("MatrixVectorSizeSafe", sz, Returned(MatrixVectorSizeSafe(sz)))

DoMatrixVectorSize ==
    /\ pc = "idle"
    /\ \E sz \in MatrixSizeInputs :
           SizeCall("MatrixVectorSize", sz, MatrixVectorSize(sz))

DoGetMatrixSideSafe ==
    /\ pc = "idle"
    /\ \E sz \in MatrixSizeInputs :
           SizeCall("GetMatrixSideSafe", sz, Returned(GetMatrixSideSafe(sz)))

DoGetMatrixSide ==
    /\ pc = "idle"
    /\ \E sz \in MatrixSizeInputs :
           SizeCall("GetMatrixSide", sz, GetMatrixSide(sz))

NextSizes ==
    \/ DoGetHalfVectorSizeSafe
    \/ DoGetHalfVectorSize
    \/ DoGetDoubleVectorSizeSafe
    \/ DoGetDoubleVectorSize
    \/ DoGetVecSizeSafe
    \/ DoGetVecSize
    \/ DoGetVectorSizeSafe
    \/ DoGetVectorSize
    \/ DoGetMatrixSizeSafe
    \/ DoGetMatrixSize
    \/ DoGetMtxSizeSafe
    \/ DoGetMtxSize
    \/ DoMatrixVectorSizeSafe
    \/ DoMatrixVectorSize
    \/ DoGetMatrixSideSafe
    \/ DoGetMatrixSide

SpecSizes == InitSizes /\ [][NextSizes]_vars

\* The size index of an instruction word: (bit 7) + 2 * (bit 15).
SizeIndex(op) == ((op.m \div 128) % 2) + 2 * ((op.m \div 32768) % 2)

\* C19 (under SpecSizes): for every instruction word GetVecSizeSafe returns
\* Single, Pair, Triple, Quad for the index (bit 7) + 2*(bit 15) = 0, 1, 2, 3
\* and never V_Invalid; GetMtxSizeSafe returns the matrix size of the same
\* index and never M_Invalid; GetMatrixSizeSafe and GetVectorSizeSafe are
\* inverse to each other on the four valid sizes.
C19_SizeDecode ==
    /\ fn = "GetVecSizeSafe" =>
           /\ out = <<"V_Single", "V_Pair", "V_Triple", "V_Quad">>[SizeIndex(arg.x) + 1]
           /\ out # "V_Invalid"
    /\ fn = "GetMtxSizeSafe" =>
           /\ out = <<"M_1x1", "M_2x2", "M_3x3", "M_4x4">>[SizeIndex(arg.x) + 1]
           /\ out # "M_Invalid"
           /\ out = GetMatrixSizeSafe(GetVecSizeSafe(arg.x))
           /\ GetVectorSizeSafe(out) = GetVecSizeSafe(arg.x)
    /\ (fn = "GetMatrixSizeSafe" /\ arg.x \in VectorSizes) =>
           (out \in MatrixSizes /\ GetVectorSizeSafe(out) = arg.x)
    /\ (fn = "GetVectorSizeSafe" /\ arg.x \in MatrixSizes) =>
           (out \in VectorSizes /\ GetMatrixSizeSafe(out) = arg.x)

\* A word with bit 31, bit 15 and every bit but 7 set decodes to 3x3.
C19_Witness ==
    /\ fn = "GetMtxSizeSafe"
    /\ arg.x = Bits(1, \H7FFFFF7F)
    /\ out = "M_3x3"

\* The inputs for which a helper has no result.
NoResult(f, x) ==
    CASE f \in {"GetHalfVectorSizeSafe", "GetHalfVectorSize"} ->
             x \notin {"V_Pair", "V_Quad"}
      [] f \in {"GetDoubleVectorSizeSafe", "GetDoubleVectorSize"} ->
             x \notin {"V_Single", "V_Pair"}
      [] f \in {"GetMatrixSizeSafe", "GetMatrixSize"} -> x \notin VectorSizes
      [] f \in {"GetVectorSizeSafe", "GetVectorSize", "MatrixVectorSizeSafe",
                "MatrixVectorSize", "GetMatrixSideSafe", "GetMatrixSide"} ->
             x \notin MatrixSizes
      [] OTHER -> FALSE

\* The sentinel of a helper: 0 for the side, M_Invalid for a matrix size,
\* V_Invalid for a vector size.
Sentinel(f) ==
    CASE f \in {"GetMatrixSideSafe", "GetMatrixSide"} -> 0
      [] f \in {"GetMatrixSizeSafe", "GetMatrixSize", "GetMtxSizeSafe", "GetMtxSize"} ->
             "M_Invalid"
      [] OTHER -> "V_Invalid"

SafeHelpers ==
    {"GetHalfVectorSizeSafe", "GetDoubleVectorSizeSafe", "GetVecSizeSafe",
     "GetVectorSizeSafe", "GetMatrixSizeSafe", "GetMtxSizeSafe",
     "MatrixVectorSizeSafe", "GetMatrixSideSafe"}

\* What the Safe helper of the non-Safe helper f returns for x.
SafeResult(f, x) ==
    CASE f = "GetHalfVectorSize"   -> GetHalfVectorSizeSafe(x)
      [] f = "GetDoubleVectorSize" -> GetDoubleVectorSizeSafe(x)
      [] f = "GetVecSize"          -> GetVecSizeSafe(x)
      [] f = "GetVectorSize"       -> GetVectorSizeSafe(x)
      [] f = "GetMatrixSize"       -> GetMatrixSizeSafe(x)
      [] f = "GetMtxSize"          -> GetMtxSizeSafe(x)
      [] f = "MatrixVectorSize"    -> MatrixVectorSizeSafe(x)
      [] f = "GetMatrixSide"       -> GetMatrixSideSafe(x)

\* C20 (under SpecSizes): a Safe helper never asserts and returns its Invalid
\* sentinel exactly for the inputs that have no result (half: all but Pair
\* and Quad; double: all but Single and Pair; conversions and side: sizes
\* outside the enum; opcode decodes: none); the non-Safe helper fails its
\* assertion exactly on those inputs and returns the Safe helper's value on
\* all others.
C20_SafeAndChecked ==
    /\ fn \in SafeHelpers =>
           /\ kind = "-"
           /\ (out = Sentinel(fn)) <=> NoResult(fn, arg.x)
    /\ (fn # "-" /\ fn \notin SafeHelpers) =>
           /\ (kind = "assert") <=> NoResult(fn, arg.x)
           /\ kind # "assert" => out = SafeResult(fn, arg.x)
           /\ NoResult(fn, arg.x) <=> (SafeResult(fn, arg.x) = Sentinel(fn))

\* GetHalfVectorSize(V_Triple) fails its assertion.
C20_Witness ==
    /\ fn = "GetHalfVectorSize"
    /\ arg.x = "V_Triple"
    /\ kind = "assert"
    /\ GetHalfVectorSizeSafe("V_Triple") = "V_Invalid"

(***************************************************************************)
(* Specification SpecTwoCpu: two emulated-CPU instances, each with its own *)
(* register file and write mask, and one thread per instance that makes    *)
(* its instance the current one and then runs one transfer call.  The      *)
(* transfer functions reach the register file and the write mask through   *)
(* the global pointer currentMIPS, which they read again at every V(i)     *)
(* and at every VfpuWriteMask call; the matrix functions read it once for   *)
(* the pointer v and again for every mask test.  A step of a thread holds  *)
(* at most one read of currentMIPS and at most one float moved: a mask     *)
(* test and the store it guards are two steps, and so is every float that  *)
(* a fast path (a copy loop or memcpy) moves.  The source does not fix the *)
(* order in which a racing fast path moves its 16 floats; compilers and    *)
(* the C library move them in groups of four, the floats of one iteration  *)
(* of the outer loop or the floats of one 16-byte row of the bank.  A fast *)
(* path takes the groups in any order and the floats of a group in any     *)
(* order.  The threads' steps interleave in any order.                     *)
(***************************************************************************)
Instances == {0, 1}

\* The calls in progress are told apart by the tokens they move: slot p of
\* the register file of instance c holds Owned(c, p) at the start, and the
\* operand buffer of the thread of instance c holds Owned(c, 200 + k).
Owned(c, x) == c * 1000 + x

OwnerOf(x) == x \div 1000

\* The codes and the sizes the two threads draw their calls from: column 0
\* of bank 0, untransposed and transposed.
TwoCpuCodes == {0, 32}

TwoCpuVectorSizes == {"V_Single", "V_Pair"}

\* The thread of instance 0 also moves whole banks; the thread of instance 1
\* moves 2x2 tiles.
TwoCpuMatrixSizes(t) == IF t = 0 THEN {"M_2x2", "M_4x4"} ELSE {"M_2x2"}

\* The variables of the one-call specifications.
oneCall == <<v, mask, stack, pc, fn, arg, src, pre, out, ret, kind>>

\* A thread: its position pc, its call, the loop counter k, the instance p
\* whose register file its pointer v points into, the loop it has chosen,
\* its operand buffer rd and the instances whose write mask it has consulted;
\* on a fast path, the group of floats being moved, the groups begun so far
\* and the floats of the group moved so far.
NoThread ==
    [pc |-> "idle", fn |-> "-", size |-> "-", reg |-> 0, k |-> 0, p |-> -1,
     path |-> "-", rd |-> Fresh(16), asked |-> {}, grp |-> -1, grps |-> {},
     got |-> {}]

InitTwoCpu ==
    /\ v = TokenFile
    /\ mask = 0
    /\ stack = 0
    /\ pc = "idle"
    /\ fn = "-"
    /\ arg = NoArg
    /\ src = Fresh(16)
    /\ pre = v
    /\ out = Fresh(16)
    /\ ret = 0
    /\ kind = "-"
    /\ currentMIPS = 0
    /\ cpu = [c \in Instances |->
                 [v |-> [p \in 0..127 |-> Owned(c, p)],
                  mask |-> IF c = 0 THEN 0 ELSE 5]]
    /\ th = [t \in Instances |-> NoThread]
    /\ hej = <<>>
    /\ yo = <<>>

\* The thread of instance t makes its instance the current one.
MakeCurrent(t) ==
    /\ th[t].pc = "idle"
    /\ currentMIPS' = t
    /\ th' = [th EXCEPT ![t].pc = "current"]
    /\ UNCHANGED <<oneCall, cpu, hej, yo>>

\* The thread of instance t enters f(rd, size, reg).
Enter(t, f, sizes, rd0) ==
    /\ th[t].pc = "current"
    /\ \E size \in sizes, reg \in TwoCpuCodes :
           th' = [th EXCEPT ![t] =
                      [NoThread EXCEPT !.pc = "body", !.fn = f, !.size = size,
                                       !.reg = reg, !.rd = rd0]]
    /\ UNCHANGED <<oneCall, currentMIPS, cpu, hej, yo>>

Operand(t) == [k \in 0..15 |-> Owned(t, 200 + k)]

EnterReadVector(t) == Enter(t, "ReadVector", TwoCpuVectorSizes, Fresh(16))

EnterWriteVector(t) == Enter(t, "WriteVector", TwoCpuVectorSizes, Operand(t))

EnterReadMatrix(t) == Enter(t, "ReadMatrix", TwoCpuMatrixSizes(t), Fresh(16))

EnterWriteMatrix(t) == Enter(t, "WriteMatrix", TwoCpuMatrixSizes(t), Operand(t))

\* The index of element k of the vector a thread transfers.
VecLane(size, reg, k) ==
    IF size = "V_Single" THEN reg
    ELSE ReadVecLane(BitAnd(Shr(reg, 2), 7), BitAnd(reg, 3),
                     VecRow(size, reg), BitAnd(Shr(reg, 5), 1), k)

\* One iteration of ReadVector: rd[k] = V(index).
StepReadVector(t) ==
    LET me == th[t]
    IN  /\ me.pc = "body"
        /\ me.fn = "ReadVector"
        /\ th' = [th EXCEPT
                      ![t].rd[me.k] =
                          V(cpu[currentMIPS].v, VecLane(me.size, me.reg, me.k)),
                      ![t].k = me.k + 1,
                      ![t].pc = IF me.k + 1 >= GetNumVectorElements(me.size)
                                THEN "done" ELSE "body"]
        /\ UNCHANGED <<oneCall, currentMIPS, cpu, hej, yo>>

\* WriteVector chooses its loop: currentMIPS->VfpuWriteMask() == 0 sends it
\* to the plain stores, anything else to the masked loop.  A V_Single write
\* has no such test; it goes to the test of lane 0 at once.
TestWriteVector(t) ==
    LET me == th[t]
        plain == me.size # "V_Single" /\ cpu[currentMIPS].mask = 0
    IN  /\ me.pc = "body"
        /\ me.fn = "WriteVector"
        /\ th' = [th EXCEPT
                      ![t].pc = IF plain THEN "store" ELSE "test",
                      ![t].path = IF plain THEN "plain" ELSE "masked",
                      ![t].asked =
                          IF me.size # "V_Single" THEN @ \cup {currentMIPS}
                          ELSE @]
        /\ UNCHANGED <<oneCall, currentMIPS, cpu, hej, yo>>

\* if (!currentMIPS->VfpuWriteMask(k)): the test of lane k, in the masked
\* loop and for V_Single.  A set bit skips the store.
MaskWriteVector(t) ==
    LET me == th[t]
        last == me.k + 1 >= GetNumVectorElements(me.size)
    IN  /\ me.pc = "test"
        /\ me.fn = "WriteVector"
        /\ th' = IF ~VfpuWriteMask(cpu[currentMIPS].mask, me.k)
                 THEN [th EXCEPT ![t].asked = @ \cup {currentMIPS},
                                 ![t].pc = "store"]
                 ELSE [th EXCEPT ![t].asked = @ \cup {currentMIPS},
                                 ![t].k = me.k + 1,
                                 ![t].pc = IF last THEN "done" ELSE "test"]
        /\ UNCHANGED <<oneCall, currentMIPS, cpu, hej, yo>>

\* V(index) = rd[k]: the store of lane k, through currentMIPS as it is now.
StepWriteVector(t) ==
    LET me == th[t]
        last == me.k + 1 >= GetNumVectorElements(me.size)
    IN  /\ me.pc = "store"
        /\ me.fn = "WriteVector"
        /\ cpu' = [cpu EXCEPT ![currentMIPS].v =
                       SetV(@, VecLane(me.size, me.reg, me.k), me.rd[me.k])]
        /\ th' = [th EXCEPT
                      ![t].k = me.k + 1,
                      ![t].pc = IF last THEN "done"
                                ELSE IF me.path = "plain" THEN "store"
                                ELSE "test"]
        /\ UNCHANGED <<oneCall, currentMIPS, hej, yo>>

\* Is the tile the whole bank, so that the fast paths apply?
WholeBank(size, reg) ==
    /\ GetMatrixSideSafe(size) = 4
    /\ MtxRow(size, reg) = 0
    /\ BitAnd(reg, 3) = 0

\* if (currentMIPS->VfpuWriteMask() != 0) of WriteMatrix, before the pointer
\* is taken: a mask in use is reported, nothing else depends on the test.
LogMaskWriteMatrix(t) ==
    LET me == th[t]
    IN  /\ me.pc = "body"
        /\ me.fn = "WriteMatrix"
        /\ th' = [th EXCEPT ![t].pc = "pointer",
                            ![t].asked = @ \cup {currentMIPS}]
        /\ UNCHANGED <<oneCall, currentMIPS, cpu, hej, yo>>

\* The ways a fast path on (size, reg) groups the floats it moves: "fast",
\* by the iterations of the outer loop of the source, group j holding
\* v[i * 4 + j] in the transposing loops and v[j * 4 + i] in memcpy (line
\* 283: rd[j * 4 + i] = v[j * 4 + i]); "rows", by the 16-byte rows
\* v[g * 4 .. g * 4 + 3] of the bank, which differs when transposing only.
FastPaths(size, reg) ==
    IF MtxTranspose(size, reg) # 0 THEN {"fast", "rows"} ELSE {"fast"}

\* ReadMatrix and WriteMatrix take v = currentMIPS->v + mtx * 16.  On the
\* whole bank ReadMatrix goes to its fast path and WriteMatrix to the test
\* of the mask that chooses its path; on other tiles both go to the loops.
CaptureMatrix(t) ==
    LET me == th[t]
        write == me.fn = "WriteMatrix"
        whole == WholeBank(me.size, me.reg)
    IN  /\ \/ me.pc = "body" /\ me.fn = "ReadMatrix"
           \/ me.pc = "pointer" /\ write
        /\ \E path \in (IF whole /\ ~write
                         THEN FastPaths(me.size, me.reg) ELSE {"cells"}) :
               th' = [th EXCEPT
                          ![t].pc = IF whole /\ write THEN "choose" ELSE "loop",
                          ![t].p = currentMIPS,
                          ![t].path = path]
        /\ UNCHANGED <<oneCall, currentMIPS, cpu, hej, yo>>

\* side == 4 && row == 0 && col == 0 && currentMIPS->VfpuWriteMask() == 0x0
\* of WriteMatrix: the mask is read, through currentMIPS as it is now, only
\* when the tile is the whole bank.
ChooseWriteMatrix(t) ==
    LET me == th[t]
    IN  /\ me.pc = "choose"
        /\ me.fn = "WriteMatrix"
        /\ \E path \in (IF cpu[currentMIPS].mask = 0
                         THEN FastPaths(me.size, me.reg) ELSE {"cells"}) :
               th' = [th EXCEPT
                          ![t].pc = "loop",
                          ![t].path = path,
                          ![t].asked = @ \cup {currentMIPS}]
        /\ UNCHANGED <<oneCall, currentMIPS, cpu, hej, yo>>

\* The slot in memory of cell k (j outer, i inner) of a thread's tile.
CellSlot(size, reg, k) ==
    LET side == GetMatrixSideSafe(size)
    IN  BitAnd(Shr(reg, 2), 7) * 16
            + MtxSlot(BitAnd(reg, 3), MtxRow(size, reg),
                      MtxTranspose(size, reg), k % side, k \div side)

\* The slot in memory of float m of group g of a fast path: v[i * 4 + j]
\* with j = g, i = m in the transposing loops, v[g * 4 + m] in memcpy and
\* in a row.
FastSlot(path, size, reg, g, m) ==
    BitAnd(Shr(reg, 2), 7) * 16
        + (IF path = "fast" /\ MtxTranspose(size, reg) # 0
           THEN m * 4 + g ELSE g * 4 + m)

\* The element of rd that goes with it: rd[j * 4 + i] for v[i * 4 + j] when
\* transposing, the element at the same offset in memcpy.
FastElement(path, size, reg, g, m) ==
    IF path = "rows" /\ MtxTranspose(size, reg) # 0
    THEN m * 4 + g ELSE g * 4 + m

\* The floats a thread on a fast path can move next, each with the thread
\* after the move: any float of the group it is in, or, between groups, any
\* float of any group not begun; the path ends after 16 floats.
NextFloats(me) ==
    LET Moved(g, m) ==
            [me EXCEPT !.grp = g,
                       !.grps = @ \cup {g},
                       !.got = IF me.got \cup {m} = 0..3 THEN {}
                               ELSE me.got \cup {m},
                       !.k = me.k + 1,
                       !.pc = IF me.k + 1 >= 16 THEN "done" ELSE "loop"]
        floats == IF me.got = {} THEN ((0..3) \ me.grps) \X (0..3)
                  ELSE {me.grp} \X ((0..3) \ me.got)
    IN  {[g |-> f[1], m |-> f[2], then |-> Moved(f[1], f[2])] : f \in floats}

\* The element of rd that goes with cell k: rd[j * 4 + i].
CellElement(size, k) ==
    LET side == GetMatrixSideSafe(size)
    IN  (k \div side) * 4 + (k % side)

LastCell(size, k) ==
    LET side == GetMatrixSideSafe(size) IN k + 1 >= side * side

\* One float of ReadMatrix on the fast path, through the pointer v taken
\* before.
FastReadMatrix(t) ==
    LET me == th[t]
    IN  /\ me.pc = "loop"
        /\ me.fn = "ReadMatrix"
        /\ me.path \in {"fast", "rows"}
        /\ \E f \in NextFloats(me) :
               LET slot    == FastSlot(me.path, me.size, me.reg, f.g, f.m)
                   element == FastElement(me.path, me.size, me.reg, f.g, f.m)
               IN  th' = [th EXCEPT ![t] =
                              [f.then EXCEPT !.rd[element] = cpu[me.p].v[slot]]]
        /\ UNCHANGED <<oneCall, currentMIPS, cpu, hej, yo>>

\* One iteration of the loops of ReadMatrix, through the pointer v taken
\* before.
StepReadMatrix(t) ==
    LET me == th[t]
    IN  /\ me.pc = "loop"
        /\ me.fn = "ReadMatrix"
        /\ me.path = "cells"
        /\ th' = [th EXCEPT
                      ![t].rd[CellElement(me.size, me.k)] =
                          cpu[me.p].v[CellSlot(me.size, me.reg, me.k)],
                      ![t].k = me.k + 1,
                      ![t].pc = IF LastCell(me.size, me.k)
                                THEN "done" ELSE "loop"]
        /\ UNCHANGED <<oneCall, currentMIPS, cpu, hej, yo>>

\* One float of WriteMatrix on the fast path: the store goes through the
\* pointer v taken before.
FastWriteMatrix(t) ==
    LET me == th[t]
    IN  /\ me.pc = "loop"
        /\ me.fn = "WriteMatrix"
        /\ me.path \in {"fast", "rows"}
        /\ \E f \in NextFloats(me) :
               LET slot    == FastSlot(me.path, me.size, me.reg, f.g, f.m)
                   element == FastElement(me.path, me.size, me.reg, f.g, f.m)
               IN  /\ cpu' = [cpu EXCEPT ![me.p].v[slot] = me.rd[element]]
                   /\ th' = [th EXCEPT ![t] = f.then]
        /\ UNCHANGED <<oneCall, currentMIPS, hej, yo>>

\* One iteration of the loops of WriteMatrix: the store goes through the
\* pointer v taken before, the test
\* j != side - 1 || !currentMIPS->VfpuWriteMask(i) through currentMIPS,
\* which is read for the cells of the last column only.
StepWriteMatrix(t) ==
    LET me == th[t]
        side == GetMatrixSideSafe(me.size)
        i == me.k % side
        j == me.k \div side
    IN  /\ me.pc = "loop"
        /\ me.fn = "WriteMatrix"
        /\ me.path = "cells"
        /\ cpu' = IF MtxCellWritten(cpu[currentMIPS].mask, side, i, j)
                  THEN [cpu EXCEPT ![me.p].v[CellSlot(me.size, me.reg, me.k)] =
                                       me.rd[CellElement(me.size, me.k)]]
                  ELSE cpu
        /\ th' = [th EXCEPT
                      ![t].asked = IF j # side - 1 THEN @
                                   ELSE @ \cup {currentMIPS},
                      ![t].k = me.k + 1,
                      ![t].pc = IF LastCell(me.size, me.k)
                                THEN "done" ELSE "loop"]
        /\ UNCHANGED <<oneCall, currentMIPS, hej, yo>>

NextTwoCpu ==
    \/ \E t \in Instances : MakeCurrent(t)
    \/ \E t \in Instances : EnterReadVector(t)
    \/ \E t \in Instances : EnterWriteVector(t)
    \/ \E t \in Instances : EnterReadMatrix(t)
    \/ \E t \in Instances : EnterWriteMatrix(t)
    \/ \E t \in Instances : StepReadVector(t)
    \/ \E t \in Instances : TestWriteVector(t)
    \/ \E t \in Instances : MaskWriteVector(t)
    \/ \E t \in Instances : StepWriteVector(t)
    \/ \E t \in Instances : LogMaskWriteMatrix(t)
    \/ \E t \in Instances : CaptureMatrix(t)
    \/ \E t \in Instances : ChooseWriteMatrix(t)
    \/ \E t \in Instances : FastReadMatrix(t)
    \/ \E t \in Instances : StepReadMatrix(t)
    \/ \E t \in Instances : FastWriteMatrix(t)
    \/ \E t \in Instances : StepWriteMatrix(t)

SpecTwoCpu == InitTwoCpu /\ [][NextTwoCpu]_vars

\* C21 (under SpecTwoCpu): however the transfer calls of the two instances
\* interleave, every slot of an instance's register file holds a value of
\* that instance (no call of the other instance stored into it), every
\* value a call has read into rd is a value of its own instance, and a call
\* has consulted the write mask of its own instance only.
C21_InstancesIsolated ==
    /\ \A c \in Instances : \A p \in 0..127 : OwnerOf(cpu[c].v[p]) = c
    /\ \A t \in Instances :
           /\ \A k \in 0..15 : th[t].rd[k] # -1 => OwnerOf(th[t].rd[k]) = t
           /\ th[t].asked \subseteq {t}

(***************************************************************************)
(* Transfer reads against the decoders.                                    *)
(***************************************************************************)
\* The general loops of ReadMatrix, taken for every tile: rd[j * 4 + i] =
\* v[index] for i, j < side.
ReadMtxLoop(vv, rd0, size, reg) ==
    LET side == GetMatrixSideSafe(size)
    IN  [k \in DOMAIN rd0 |->
            IF k % 4 < side /\ k \div 4 < side
            THEN vv[BitAnd(Shr(reg, 2), 7) * 16
                        + MtxSlot(BitAnd(reg, 3), MtxRow(size, reg),
                                  MtxTranspose(size, reg), k % 4, k \div 4)]
            ELSE rd0[k]]

\* C22 (under SpecXfer): ReadVector returns rd[i] = lane GetVectorRegs(code,
\* size)[i] for i < length; ReadMatrix returns rd[j*4+i] = lane
\* GetMatrixRegs(code, size)[j*4+i] for i, j < side; and on the full 4x4 tile
\* at column 0, row 0, transposed or not, ReadMatrix returns what its general
\* loops return and WriteMatrix under a clear mask leaves the register file
\* its general loops leave.
C22_ReadsAgreeWithDecode ==
    /\ fn = "ReadVector" =>
           LET regs == GetVectorRegs(Fresh(4), arg.size, arg.reg)
           IN  \A i \in 0..(GetNumVectorElements(arg.size) - 1) :
                   out[i] = V(v, regs[i])
    /\ fn = "ReadMatrix" =>
           LET regs == GetMatrixRegs(Fresh(16), arg.size, arg.reg)
               side == GetMatrixSideSafe(arg.size)
           IN  \A i, j \in 0..(side - 1) :
                   out[j * 4 + i] = V(v, regs[j * 4 + i])
    /\ (fn = "ReadMatrix" /\ WholeBank(arg.size, arg.reg)) =>
           out = ReadMtxLoop(v, Fresh(16), arg.size, arg.reg)
    /\ (fn = "WriteMatrix" /\ WholeBank(arg.size, arg.reg) /\ mask = 0) =>
           v = WriteMtxLoop(pre, mask, src, BitAnd(Shr(arg.reg, 2), 7) * 16,
                            0, 0, MtxTranspose(arg.size, arg.reg), 4, 0)

\* The full tile of bank 2 read transposed: rd[1] is the float at v[4] of the
\* bank, rd[4] the float at v[1].
C22_Witness ==
    /\ pc = "done"
    /\ fn = "ReadMatrix"
    /\ arg.size = "M_4x4"
    /\ arg.reg = 40
    /\ v = TokenFile
    /\ <<out[0], out[1], out[4], out[15]>> = <<32, 36, 33, 47>>

(***************************************************************************)
(* Claims about the reduction of the angle and about vfpu_sincos.          *)
(***************************************************************************)
\* The sine and the cosine word of the call recorded in the state.
SineOut == IF fn = "vfpu_sincos" THEN out.s ELSE out

CosineOut == IF fn = "vfpu_sincos" THEN out.c ELSE out

\* The 24-bit mantissa, in units of 2^-22 (exponent field 0x80), of x mod 4
\* for a finite x with exponent field k > 0x80: x is mantissa * 2^(k - 0x96).
Mod4Mantissa(x) ==
    LET up == get_uexp(x) - \H80
    IN  IF up >= 24 THEN 0 ELSE (get_mant(x) % 2^(24 - up)) * 2^up

\* C23 (under SpecTrig): for every finite input with exponent field above
\* 0x80 the mantissa the three functions reduce to is exactly the input
\* modulo 4 turns, and an input that is a multiple of 4 turns gives a zero
\* sine and the cosine 1.0.
C23_ReducesModuloFour ==
    (/\ fn \in {"vfpu_sin", "vfpu_cos", "vfpu_sincos"}
     /\ get_uexp(arg.x) > \H80
     /\ get_uexp(arg.x) < 255) =>
        /\ ReduceMantissa(get_uexp(arg.x), get_mant(arg.x)) = Mod4Mantissa(arg.x)
        /\ Mod4Mantissa(arg.x) = 0 =>
               /\ kind = "-"
               /\ fn # "vfpu_cos" => SineOut.m = 0
               /\ fn # "vfpu_sin" => CosineOut = PlusOne

\* C24 (under SpecTrig): for every input with exponent field below 0x65,
\* zeros and denormals included, vfpu_sin returns a zero with the input's
\* sign bit and vfpu_cos returns 0x3F800000, and vfpu_sincos returns that
\* pair; no platform function is called.
C24_SmallAngleFlush ==
    (/\ fn \in {"vfpu_sin", "vfpu_cos", "vfpu_sincos"}
     /\ get_uexp(arg.x) < \H65) =>
        /\ kind = "-"
        /\ fn # "vfpu_cos" => SineOut = Bits(arg.x.s, 0)
        /\ fn # "vfpu_sin" => CosineOut = Bits(0, \H3F800000)

\* vfpu_sincos of the negative denormal 0x80000001: -0.0 and 1.0.
C24_Witness ==
    /\ fn = "vfpu_sincos"
    /\ arg.x = Bits(1, 1)
    /\ out = [s |-> MinusZero, c |-> PlusOne]
    /\ kind = "-"

\* C25 (under SpecTrig): when vfpu_sincos resolves its input without a
\* platform call, its cosine is the word vfpu_cos returns for the input,
\* also without a platform call, and, unless the reduced value is +/-1.0
\* (sine +/-1.0), its sine is the word vfpu_sin returns, also without a
\* platform call; a NaN or an infinity gives sign|0x7F800001 and 0x7F800001.
C25_SincosAsTwoCalls ==
    (fn = "vfpu_sincos" /\ kind = "-") =>
        /\ vfpu_cos(arg.x) = Exact(out.c)
        /\ out.s.m # \H3F800000 => vfpu_sin(arg.x) = Exact(out.s)
        /\ get_uexp(arg.x) = 255 =>
               out = [s |-> Bits(arg.x.s, \H7F800001), c |-> Bits(0, \H7F800001)]

\* vfpu_sincos(-2.0): the subtraction of 2 leaves no mantissa; the sine is
\* +0.0 (the sign flipped) and the cosine -1.0, as from the two functions.
C25_Witness ==
    /\ fn = "vfpu_sincos"
    /\ arg.x = Bits(1, \H40000000)
    /\ kind = "-"
    /\ out = [s |-> PlusZero, c |-> Bits(1, \H3F800000)]
    /\ vfpu_sin(arg.x).val = PlusZero

(***************************************************************************)
(* Claims about the result classes and the NaN operands of vfpu_dot.       *)
(***************************************************************************)
\* C26 (under SpecDot): the result of vfpu_dot is the canonical NaN
\* 0x7F800001, an infinity of either sign with zero fraction, +0.0, or a
\* normal number with exponent field 1..254, never a subnormal or -0.0, and
\* the debug assertion on bit 23 of the renormalised mantissa does not fail.
C26_DotResultClasses ==
    fn = "vfpu_dot" =>
        /\ \/ out = Bits(0, \H7F800001)
           \/ out.m = \H7F800000
           \/ out = PlusZero
           \/ get_uexp(out) \in 1..254
        /\ kind # "assert"

\* -(1 + 2^-23) * 1 + 1 * 1: the sum has one significant bit and is shifted
\* left by 23 to the normal number -2^-23.
C26_Witness ==
    /\ fn = "vfpu_dot"
    /\ arg.a[0] = Bits(1, \H3F800001) /\ arg.b[0] = PlusOne
    /\ arg.a[1] = PlusOne /\ arg.b[1] = PlusOne
    /\ \A i \in 2..3 : arg.a[i] = PlusZero /\ arg.b[i] = PlusZero
    /\ out = Bits(1, \H34000000)
    /\ kind = "-"

\* C29 (under SpecDot): if any of the eight operands is a NaN, whatever the
\* other element of its lane, vfpu_dot returns 0x7F800001; and vfpu_dot(a, b)
\* is the word vfpu_dot(b, a) returns.
C29_DotNaNPropagates ==
    fn = "vfpu_dot" =>
        /\ (\E i \in 0..3 : IsNaN(arg.a[i]) \/ IsNaN(arg.b[i]))
               => out = Bits(0, \H7F800001)
        /\ out = vfpu_dot(arg.b, arg.a)

(***************************************************************************)
(* Specification SpecNotation: calls of GetVectorNotation and of           *)
(* GetMatrixNotation by two unsynchronised callers.  Each function has its *)
(* own static char hej[4][16] and static int yo.  A step of a caller is    *)
(* one access to them: a load of yo, a store to yo, or a character that    *)
(* sprintf stores; a caller keeps what it has loaded in its register r and *)
(* the buffer sprintf was given in b.  The statements yo++; yo &= 3;       *)
(* sprintf(hej[yo], ...); return hej[yo]; are compiled in one of two ways, *)
(* the same for all calls of a behaviour: without optimisation every       *)
(* statement loads yo and the first two store it; with optimisation yo is  *)
(* loaded once, (yo + 1) & 3 is stored once and is the index sprintf gets, *)
(* and yo is loaded again for the return value.  A string is the tuple of  *)
(* its characters up to the first NUL, which is written "".  out is the    *)
(* list of the strings returned so far, ret the number of calls begun;     *)
(* kind becomes "raced" when a call begins while another is in progress,   *)
(* and "undefined" when hej is indexed with a yo above 3.  Behaviour after *)
(* that is not followed.                                                   *)
(***************************************************************************)
Callers == {0, 1}

MaxCalls == 5

\* The arguments of the calls of caller t.
VectorNotationArgs(t) ==
    IF t = 0 THEN {<<0, "V_Single">>} ELSE {<<33, "V_Quad">>}

MatrixNotationArgs(t) ==
    IF t = 0 THEN {<<4, "M_4x4">>} ELSE {<<98, "M_1x1">>}

\* "%i" of a number below 8: one character.
Digit(n) == <<"0", "1", "2", "3", "4", "5", "6", "7">>[n + 1]

\* The string GetVectorNotation formats for (reg, size).
VectorNotationText(reg, size) ==
    LET mtx == BitAnd(Shr(reg, 2), 7)
        col == BitAnd(reg, 3)
        transpose == IF size = "V_Single" THEN 0 ELSE BitAnd(Shr(reg, 5), 1)
        row == CASE size = "V_Single" -> BitAnd(Shr(reg, 5), 3)
                 [] size = "V_Pair"   -> BitAnd(Shr(reg, 5), 2)
                 [] size = "V_Triple" -> BitAnd(Shr(reg, 6), 1)
                 [] size = "V_Quad"   -> BitAnd(Shr(reg, 5), 2)
                 [] OTHER             -> 0
        c0 == CASE size = "V_Single" -> "S"
                [] size \in {"V_Pair", "V_Triple", "V_Quad"} -> "C"
                [] OTHER -> "?"
        c == IF transpose # 0 /\ c0 = "C" THEN "R" ELSE c0
    IN  IF transpose # 0
        THEN <<c, Digit(mtx), Digit(row), Digit(col)>>
        ELSE <<c, Digit(mtx), Digit(col), Digit(row)>>

\* The string GetMatrixNotation formats for (reg, size); M_1x1 has no case.
MatrixNotationText(reg, size) ==
    LET mtx == BitAnd(Shr(reg, 2), 7)
        col == BitAnd(reg, 3)
        transpose == BitAnd(Shr(reg, 5), 1)
        row == CASE size = "M_2x2" -> BitAnd(Shr(reg, 5), 2)
                 [] size = "M_3x3" -> BitAnd(Shr(reg, 6), 1)
                 [] size = "M_4x4" -> BitAnd(Shr(reg, 5), 2)
                 [] OTHER          -> 0
        c0 == IF size \in {"M_2x2", "M_3x3", "M_4x4"} THEN "M" ELSE "?"
        c == IF transpose # 0 /\ c0 = "M" THEN "E" ELSE c0
    IN  IF transpose # 0
        THEN <<c, Digit(mtx), Digit(row), Digit(col)>>
        ELSE <<c, Digit(mtx), Digit(col), Digit(row)>>

NotationText(f, reg, size) ==
    IF f = "GetVectorNotation" THEN VectorNotationText(reg, size)
    ELSE MatrixNotationText(reg, size)

NotationFns == {"GetVectorNotation", "GetMatrixNotation"}

\* The ways the statements on yo are compiled: FALSE without optimisation,
\* TRUE with.
Builds == BOOLEAN

\* A caller: its position, its call, the build of the code it runs, its
\* register r, the index b of the buffer sprintf was given and the number c
\* of characters sprintf has stored.
NoCaller(opt) ==
    [pc |-> "idle", fn |-> "-", reg |-> 0, size |-> "-", opt |-> opt,
     r |-> 0, b |-> 0, c |-> 0]

\* A zeroed buffer, as far as a string of four characters reaches.
NulBuffer == <<"", "", "", "">>

\* The string in a buffer: its characters before the first NUL.
StringIn(buf) ==
    LET nul == {k \in 1..Len(buf) : buf[k] = ""}
    IN  IF nul = {} THEN buf
        ELSE SubSeq(buf, 1, (CHOOSE k \in nul : \A m \in nul : k <= m) - 1)

InitNotation ==
    /\ v = TokenFile
    /\ mask = 0
    /\ stack = 0
    /\ pc = "idle"
    /\ fn = "-"
    /\ arg = NoArg
    /\ src = Fresh(16)
    /\ pre = v
    /\ out = <<>>
    /\ ret = 0
    /\ kind = "-"
    /\ currentMIPS = 0
    /\ cpu = <<>>
    /\ \E opt \in Builds : th = [t \in Callers |-> NoCaller(opt)]
    /\ hej = [f \in NotationFns |-> [i \in 0..3 |-> NulBuffer]]
    /\ yo = [f \in NotationFns |-> 0]

\* The variables a notation step leaves alone whatever it does.
notNotation == <<v, mask, stack, pc, fn, arg, src, pre, currentMIPS, cpu>>

\* Caller t begins f(reg, size).  The calls of a behaviour follow one
\* another until one begins while another is in progress; no call begins
\* after those two.
EnterNotation(t, f, args) ==
    /\ kind = "-"
    /\ th[t].pc = "idle"
    /\ ret < MaxCalls
    /\ \E a \in args :
           th' = [th EXCEPT ![t] = [NoCaller(th[t].opt) EXCEPT
                                        !.pc = "load", !.fn = f,
                                        !.reg = a[1], !.size = a[2]]]
    /\ ret' = ret + 1
    /\ kind' = IF \E u \in Callers : th[u].pc # "idle" THEN "raced" ELSE kind
    /\ UNCHANGED <<notNotation, out, hej, yo>>

EnterGetVectorNotation(t) ==
    EnterNotation(t, "GetVectorNotation", VectorNotationArgs(t))

EnterGetMatrixNotation(t) ==
    EnterNotation(t, "GetMatrixNotation", MatrixNotationArgs(t))

\* Mutant of Incremented: the index advances by two.
IncrementedByTwo(y) == y + 2

\* The value of yo after yo++.
Incremented(y) == y + 1

\* The value of yo after yo &= 3.
Masked(y) == BitAnd(y, 3)

\* The load of yo++.
LoadYo(t) ==
    LET me == th[t]
    IN  /\ kind # "undefined"
        /\ me.pc = "load"
        /\ th' = [th EXCEPT ![t].r = yo[me.fn],
                            ![t].pc = IF me.opt THEN "mask" ELSE "inc"]
        /\ UNCHANGED <<notNotation, out, ret, kind, hej, yo>>

\* The store of yo++, of the value loaded before plus one.
IncYo(t) ==
    LET me == th[t]
    IN  /\ kind # "undefined"
        /\ me.pc = "inc"
        /\ yo' = [yo EXCEPT ![me.fn] = Incremented(me.r)]
        /\ th' = [th EXCEPT ![t].pc = "reload"]
        /\ UNCHANGED <<notNotation, out, ret, kind, hej>>

\* The load of yo &= 3.
ReloadYo(t) ==
    LET me == th[t]
    IN  /\ kind # "undefined"
        /\ me.pc = "reload"
        /\ th' = [th EXCEPT ![t].r = yo[me.fn], ![t].pc = "mask"]
        /\ UNCHANGED <<notNotation, out, ret, kind, hej, yo>>

\* The store of yo &= 3: of the value loaded before, masked; with
\* optimisation the one store of both statements.
MaskYo(t) ==
    LET me == th[t]
        y == IF me.opt THEN Masked(Incremented(me.r)) ELSE Masked(me.r)
    IN  /\ kind # "undefined"
        /\ me.pc = "mask"
        /\ yo' = [yo EXCEPT ![me.fn] = y]
        /\ th' = [th EXCEPT ![t].r = y, ![t].pc = "address"]
        /\ UNCHANGED <<notNotation, out, ret, kind, hej>>

\* hej[yo], the argument of sprintf: yo is loaded again without
\* optimisation, and is then outside hej[4] when another caller's yo++ has
\* not been masked yet.
AddressNotation(t) ==
    LET me == th[t]
        y == IF me.opt THEN me.r ELSE yo[me.fn]
    IN  /\ kind # "undefined"
        /\ me.pc = "address"
        /\ IF y > 3
           THEN /\ kind' = "undefined"
                /\ UNCHANGED th
           ELSE /\ th' = [th EXCEPT ![t].b = y, ![t].pc = "format"]
                /\ UNCHANGED kind
        /\ UNCHANGED <<notNotation, out, ret, hej, yo>>

\* sprintf(hej[yo], "%c%i%i%i", ...) stores its next character.  The NUL it
\* stores after the fourth falls on a NUL.
FormatNotation(t) ==
    LET me == th[t]
    IN  /\ kind # "undefined"
        /\ me.pc = "format"
        /\ hej' = [hej EXCEPT ![me.fn][me.b][me.c + 1] =
                       NotationText(me.fn, me.reg, me.size)[me.c + 1]]
        /\ th' = [th EXCEPT ![t].c = me.c + 1,
                            ![t].pc = IF me.c + 1 >= 4 THEN "return"
                                      ELSE "format"]
        /\ UNCHANGED <<notNotation, out, ret, kind, yo>>

\* return hej[yo]: yo is loaded again and the caller gets the buffer it
\* names now; its index, the string the caller finds there and the string
\* its call formatted are added to out.
ReturnNotation(t) ==
    LET me == th[t]
    IN  /\ kind # "undefined"
        /\ me.pc = "return"
        /\ IF yo[me.fn] > 3
           THEN /\ kind' = "undefined"
                /\ UNCHANGED <<th, out>>
           ELSE /\ th' = [th EXCEPT ![t] = NoCaller(me.opt)]
                /\ out' = Append(out, [fn |-> me.fn, buf |-> yo[me.fn],
                                       text |-> StringIn(hej[me.fn][yo[me.fn]]),
                                       asked |-> NotationText(me.fn, me.reg,
                                                              me.size)])
                /\ UNCHANGED kind
        /\ UNCHANGED <<notNotation, ret, hej, yo>>

NextNotation ==
    \/ \E t \in Callers : EnterGetVectorNotation(t)
    \/ \E t \in Callers : EnterGetMatrixNotation(t)
    \/ \E t \in Callers : LoadYo(t)
    \/ \E t \in Callers : IncYo(t)
    \/ \E t \in Callers : ReloadYo(t)
    \/ \E t \in Callers : MaskYo(t)
    \/ \E t \in Callers : AddressNotation(t)
    \/ \E t \in Callers : FormatNotation(t)
    \/ \E t \in Callers : ReturnNotation(t)

SpecNotation == InitNotation /\ [][NextNotation]_vars

\* The returns of function f, oldest first.
ReturnsOf(f) == SelectSeq(out, LAMBDA r : r.fn = f)

\* Has a call of f been given its buffer without having returned yet?
Formatting(f) ==
    \E t \in Callers : th[t].pc \in {"format", "return"} /\ th[t].fn = f

\* C27 (under SpecNotation): as long as the calls follow one another, the
\* string a call of GetVectorNotation returned is still in its buffer after
\* each of the next three calls of GetVectorNotation, none of which is handed
\* that buffer, and the fourth following call formats its own string into
\* that buffer and is handed it; calls of GetMatrixNotation do not touch it.
\* The same holds for GetMatrixNotation with its own four buffers.
C27_NotationRotates ==
    kind = "-" =>
        \A f \in NotationFns :
            LET L == ReturnsOf(f)
                later == IF Formatting(f) THEN 1 ELSE 0
            IN  \A n \in 1..Len(L) :
                    /\ L[n].text = L[n].asked
                    /\ \A k \in 1..3 : n + k <= Len(L) => L[n + k].buf # L[n].buf
                    /\ (Len(L) - n) + later <= 3 =>
                           StringIn(hej[f][L[n].buf]) = L[n].text
                    /\ n + 4 <= Len(L) =>
                           /\ L[n + 4].buf = L[n].buf
                           /\ StringIn(hej[f][L[n].buf]) = L[n + 4].text
                    /\ ((Len(L) - n) + later = 4 /\ later = 1) =>
                           \E t \in Callers :
                               /\ th[t].pc \in {"format", "return"}
                               /\ th[t].fn = f
                               /\ th[t].b = L[n].buf
                               /\ yo[f] = L[n].buf
                               /\ th[t].pc = "return" =>
                                      StringIn(hej[f][L[n].buf]) =
                                          NotationText(f, th[t].reg, th[t].size)

\* Two calls of GetVectorNotation, the second begun by the other caller
\* while the first was in progress, were handed the same buffer, and the
\* caller that asked for S000 finds R001 in it.
C27_Witness ==
    /\ kind = "raced"
    /\ ret = 2
    /\ Len(out) = 2
    /\ out[1].fn = "GetVectorNotation"
    /\ out[2].fn = "GetVectorNotation"
    /\ out[1].buf = out[2].buf
    /\ out[1].asked = <<"S", "0", "0", "0">>
    /\ out[1].text = <<"R", "0", "0", "1">>
    /\ out[2].text = <<"R", "0", "0", "1">>

(***************************************************************************)
(* The vectors of a matrix: GetMatrixColumns and GetMatrixRows.            *)
(***************************************************************************)
\* a | b on non-negative ints.
BitOr(a, b) == a + b - BitAnd(a, b)

\* GetMatrixColumns(matrixReg, msize, vecs): vecs0 is the caller's array on
\* entry; the elements are stored as u8.
GetMatrixColumns(vecs0, matrixReg, msize) ==
    LET n         == GetMatrixSide(msize).value
        col       == BitAnd(matrixReg, 3)
        row       == BitAnd(Shr(matrixReg, 5), 2)
        transpose == BitAnd(Shr(matrixReg, 5), 1)
    IN  [i \in 0..3 |->
            IF i < n
            THEN BitOr(BitOr(transpose * 32, row * 32),
                       BitOr(BitAnd(matrixReg, \H1C), i + col)) % 256
            ELSE vecs0[i]]

\* Mutant of GetMatrixRows: the rows keep the transpose bit of the matrix.
GetMatrixRowsSameTranspose(vecs0, matrixReg, msize) ==
    LET n          == GetMatrixSide(msize).value
        col        == BitAnd(matrixReg, 3)
        row        == BitAnd(Shr(matrixReg, 5), 2)
        swappedCol == IF row # 0 THEN (IF msize = "M_3x3" THEN 1 ELSE 2) ELSE 0
        swappedRow == IF col # 0 THEN 2 ELSE 0
        transpose  == BitAnd(Shr(matrixReg, 5), 1)
    IN  [i \in 0..3 |->
            IF i < n
            THEN BitOr(BitOr(transpose * 32, swappedRow * 32),
                       BitOr(BitAnd(matrixReg, \H1C), i + swappedCol)) % 256
            ELSE vecs0[i]]

\* GetMatrixRows(matrixReg, msize, vecs).
GetMatrixRows(vecs0, matrixReg, msize) ==
    LET n          == GetMatrixSide(msize).value
        col        == BitAnd(matrixReg, 3)
        row        == BitAnd(Shr(matrixReg, 5), 2)
        swappedCol == IF row # 0 THEN (IF msize = "M_3x3" THEN 1 ELSE 2) ELSE 0
        swappedRow == IF col # 0 THEN 2 ELSE 0
        transpose  == 1 - BitAnd(Shr(matrixReg, 5), 1)
    IN  [i \in 0..3 |->
            IF i < n
            THEN BitOr(BitOr(transpose * 32, swappedRow * 32),
                       BitOr(BitAnd(matrixReg, \H1C), i + swappedCol)) % 256
            ELSE vecs0[i]]

(***************************************************************************)
(* Specification SpecColumns: one call of GetMatrixColumns or of           *)
(* GetMatrixRows, on any code and any matrix size.                         *)
(***************************************************************************)
InitColumns ==
    /\ v = TokenFile
    /\ mask = 0
    /\ stack = 0
    /\ Idle

DoGetMatrixColumns ==
    /\ pc = "idle"
    /\ \E msize \in MatrixSizes, reg \in Codes :
           /\ pc' = "done"
           /\ fn' = "GetMatrixColumns"
           /\ arg' = [NoArg EXCEPT !.size = msize, !.reg = reg]
           /\ out' = GetMatrixColumns(Fresh(4), reg, msize)
           /\ ret' = 0
           /\ kind' = "-"
           /\ UNCHANGED <<v, mask, stack, src, pre, ambient>>

DoGetMatrixRows ==
    /\ pc = "idle"
    /\ \E msize \in MatrixSizes, reg \in Codes :
           /\ pc' = "done"
           /\ fn' = "GetMatrixRows"
           /\ arg' = [NoArg EXCEPT !.size = msize, !.reg = reg]
           /\ out' = GetMatrixRows(Fresh(4), reg, msize)
           /\ ret' = 0
           /\ kind' = "-"
           /\ UNCHANGED <<v, mask, stack, src, pre, ambient>>

NextColumns == DoGetMatrixColumns \/ DoGetMatrixRows

SpecColumns == InitColumns /\ [][NextColumns]_vars

\* The tile of (code, size) does not wrap: 4x4 at column 0, row 0; 3x3 at
\* column and row 0 or 1; 2x2 at column and row 0 or 2.
TileDoesNotWrap(code, size) ==
    LET col == BitAnd(code, 3)
        row == MtxRow(size, code)
    IN  CASE size = "M_4x4" -> col = 0 /\ row = 0
          [] size = "M_3x3" -> col \in {0, 1} /\ row \in {0, 1}
          [] size = "M_2x2" -> col \in {0, 2} /\ row \in {0, 2}
          [] OTHER          -> FALSE

\* C28 (under SpecColumns): for a matrix code whose tile does not wrap,
\* transposed or not, element i of GetVectorRegs on the j-th code of
\* GetMatrixColumns, with the vector size of the matrix side, is cell
\* out[j*4+i] of GetMatrixRegs, and element j of GetVectorRegs on the i-th
\* code of GetMatrixRows is that same cell, for i, j < side.
C28_ColumnsAndRowsOfMatrix ==
    (fn \in {"GetMatrixColumns", "GetMatrixRows"}
         /\ TileDoesNotWrap(arg.reg, arg.size)) =>
        LET side  == GetMatrixSideSafe(arg.size)
            N     == GetVectorSizeSafe(arg.size)
            cells == GetMatrixRegs(Fresh(16), arg.size, arg.reg)
        IN  \A i, j \in 0..(side - 1) :
                IF fn = "GetMatrixColumns"
                THEN GetVectorRegs(Fresh(4), N, out[j])[i] = cells[j * 4 + i]
                ELSE GetVectorRegs(Fresh(4), N, out[i])[j] = cells[j * 4 + i]

\* The rows of the 3x3 matrix at column 1, row 1 of bank 2, untransposed
\* (code 73): the transposed Triples 105, 106, 107.
C28_Witness ==
    /\ fn = "GetMatrixRows"
    /\ arg.size = "M_3x3"
    /\ arg.reg = 73
    /\ TileDoesNotWrap(arg.reg, arg.size)
    /\ <<out[0], out[1], out[2], out[3]>> = <<105, 106, 107, -1>>
    /\ GetVectorRegs(Fresh(4), "V_Triple", out[2])[0]
           = GetMatrixRegs(Fresh(16), "M_3x3", 73)[2]

(***************************************************************************)
(* What the counting loops of GetVectorOverlap read.                       *)
(***************************************************************************)
\* Element k of an array decoded by GetVectorRegs(regs, N, code) was written
\* by the decode: it no longer holds what the caller's array held.
WrittenByDecode(N, code, k) == GetVectorRegs(Fresh(4), N, code)[k] # -1

\* C30 (under SpecOverlap): for codes of one bank, every regs1[i], i < n1,
\* and every regs2[j], j < n2, that the counting loops of GetVectorOverlap
\* compare was written by the decode calls before them, so that the count
\* does not depend on what the storage of the two arrays held.
C30_OverlapReadsWritten ==
    (fn = "GetVectorOverlap" /\ SameMatrix(arg.reg, arg.reg2)) =>
        /\ \A i \in 0..(GetNumVectorElements(arg.size) - 1) :
               WrittenByDecode(arg.size, arg.reg, i)
        /\ \A j \in 0..(GetNumVectorElements(arg.size2) - 1) :
               WrittenByDecode(arg.size, arg.reg2, j)
        /\ \A junk \in VectorResidues(arg.reg, arg.size) :
               ret = GetVectorOverlap(junk, arg.reg, arg.size, arg.reg2, arg.size2)

====
